---- MODULE Spec2Model ----
(***************************************************************************)
(* Settings resolution of the daemon (util/settings.cpp and the            *)
(* ArgsManager of util/system.cpp): the five-source settings store, the    *)
(* precedence merger, command-line and config-file ingestion, the          *)
(* persisted settings file and the chain-name selection.                   *)
(*                                                                         *)
(* A string is a sequence of one-character strings, so that the parsers    *)
(* (InterpretKey, InterpretBool, ParseParameters) work on characters as    *)
(* the code does.                                                          *)
(***************************************************************************)
EXTENDS Integers, Sequences, FiniteSets, TLC

VARIABLES
    forced_settings,      \* m_settings.forced_settings: name -> value
    command_line_options, \* m_settings.command_line_options: name -> list
    rw_settings,          \* m_settings.rw_settings: name -> value
    ro_config,            \* m_settings.ro_config: section -> name -> list
    m_network,            \* the selected config network section
    m_command,            \* the command and its arguments
    m_accept_any_command, \* whether any first non-dash token is a command
    m_config_sections,    \* sections met while parsing config files
    files,                \* the file system: path -> content
    pc,                   \* position of the controlling thread
    cs_args,              \* owner of the settings mutex ("" when free)
    ld,                   \* locals of the thread running ReadConfigFiles
    rd,                   \* locals of a concurrent reader thread
    wr,                   \* locals of the thread running WriteSettingsFile
    ss,                   \* locals of the threads calling SoftSetArg
    mp,                   \* port mapping: its globals, thread and caller
    ret,                  \* operation -> what its last call returned
    hist                  \* history kept for stating the properties

vars == <<forced_settings, command_line_options, rw_settings, ro_config,
          m_network, m_command, m_accept_any_command, m_config_sections,
          files, pc, cs_args, ld, rd, wr, ss, mp, ret, hist>>

----------------------------------------------------------------------------
(* Strings *)

S_foo == <<"f","o","o">>
S_conf == <<"c","o","n","f">>
S_includeconf == <<"i","n","c","l","u","d","e","c","o","n","f">>
S_reindex == <<"r","e","i","n","d","e","x">>
S_regtest == <<"r","e","g","t","e","s","t">>
S_signet == <<"s","i","g","n","e","t">>
S_testnet == <<"t","e","s","t","n","e","t">>
S_chain == <<"c","h","a","i","n">>
S_main == <<"m","a","i","n">>
S_test == <<"t","e","s","t">>
S_send == <<"s","e","n","d">>

Digits == <<"0","1","2","3","4","5","6","7","8","9">>
Whitespace == {" ", "\t", "\r", "\n"}

\* std::string::find(char): the first position of c in s (1-based), 0 for npos
Find(s, c) ==
    LET hits == {i \in 1..Len(s) : s[i] = c}
    IN IF hits = {} THEN 0 ELSE CHOOSE i \in hits : \A j \in hits : i <= j

\* std::string::substr(pos) with a 1-based pos
Tail1(s, pos) == IF pos > Len(s) THEN <<>> ELSE SubSeq(s, pos, Len(s))

\* std::string::substr(0, n)
Head1(s, n) == IF n >= Len(s) THEN s ELSE SubSeq(s, 1, n)

StartsWith(s, p) == Len(s) >= Len(p) /\ SubSeq(s, 1, Len(p)) = p

Max(a, b) == IF a >= b THEN a ELSE b

----------------------------------------------------------------------------
(* SettingsValue: the variant null | bool | number | string | array *)

NullV == [t |-> "null", b |-> FALSE, s |-> <<>>, a |-> <<>>]
BoolV(x) == [t |-> "bool", b |-> x, s |-> <<>>, a |-> <<>>]
StrV(x) == [t |-> "str", b |-> FALSE, s |-> x, a |-> <<>>]
NumV(x) == [t |-> "num", b |-> FALSE, s |-> x, a |-> <<>>]
ArrV(xs) == [t |-> "arr", b |-> FALSE, s |-> <<>>, a |-> xs]
\* an object without members
ObjV == [t |-> "obj", b |-> FALSE, s |-> <<>>, a |-> <<>>]

isNull(v) == v.t = "null"
isBool(v) == v.t = "bool"
isFalse(v) == v.t = "bool" /\ ~v.b
isTrue(v) == v.t = "bool" /\ v.b
isNum(v) == v.t = "num"
isStr(v) == v.t = "str"
isArray(v) == v.t = "arr"
isObject(v) == v.t = "obj"

----------------------------------------------------------------------------
(* SettingsSpan: the negation view over one source's list of values *)

last_negated(span) == Len(span) > 0 /\ isFalse(span[Len(span)])

RECURSIVE negatedFrom(_, _)
negatedFrom(span, i) ==
    IF i = 0 THEN 0
    ELSE IF isFalse(span[i]) THEN i
    ELSE negatedFrom(span, i - 1)

RECURSIVE trailingFrom(_, _)
trailingFrom(span, i) ==
    IF i = 0 \/ ~isFalse(span[i]) THEN 0
    ELSE 1 + trailingFrom(span, i - 1)

\* negated() counting only the false values the list ends with
negatedTrailing(span) == trailingFrom(span, Len(span))

\* the number of negated values: the position of the last false value
negated(span) == negatedFrom(span, Len(span))

empty(span) == Len(span) = 0 \/ last_negated(span)

\* begin() skipping only the false values the list ends with
SpanValuesSkipTrailing(span) == Tail1(span, negatedTrailing(span) + 1)

\* the values in [begin(), end())
SpanValues(span) == Tail1(span, negated(span) + 1)

----------------------------------------------------------------------------
(* The settings store and the precedence merger *)

FORCED == "FORCED"
COMMAND_LINE == "COMMAND_LINE"
RW_SETTINGS == "RW_SETTINGS"
CONFIG_FILE_NETWORK_SECTION == "CONFIG_FILE_NETWORK_SECTION"
CONFIG_FILE_DEFAULT_SECTION == "CONFIG_FILE_DEFAULT_SECTION"

EmptyMap == <<>>

FindKey(map, key) == key \in DOMAIN map

Put(map, key, value) ==
    [k \in DOMAIN map \cup {key} |-> IF k = key THEN value ELSE map[k]]

\* the Settings struct held by the ArgsManager
m_settings ==
    [forced_settings |-> forced_settings,
     command_line_options |-> command_line_options,
     rw_settings |-> rw_settings,
     ro_config |-> ro_config]

Visit(span, source) == <<[span |-> span, source |-> source]>>

\* a merge order that visits the default section before the network section
SourceOrderDefaultFirst ==
    <<FORCED, COMMAND_LINE, RW_SETTINGS, CONFIG_FILE_DEFAULT_SECTION,
      CONFIG_FILE_NETWORK_SECTION>>

\* the order in which the sources of one (section, name) are visited
SourceOrder ==
    <<FORCED, COMMAND_LINE, RW_SETTINGS, CONFIG_FILE_NETWORK_SECTION,
      CONFIG_FILE_DEFAULT_SECTION>>

\* what one source holds for the name: a one-element list of visits, or none
SourceVisit(settings, section, name, source) ==
    CASE source = FORCED ->
           IF FindKey(settings.forced_settings, name)
           THEN Visit(<<settings.forced_settings[name]>>, FORCED) ELSE <<>>
      [] source = COMMAND_LINE ->
           IF FindKey(settings.command_line_options, name)
           THEN Visit(settings.command_line_options[name], COMMAND_LINE)
           ELSE <<>>
      [] source = RW_SETTINGS ->
           IF FindKey(settings.rw_settings, name)
           THEN Visit(<<settings.rw_settings[name]>>, RW_SETTINGS) ELSE <<>>
      [] source = CONFIG_FILE_NETWORK_SECTION ->
           IF section # <<>> /\ FindKey(settings.ro_config, section)
              /\ FindKey(settings.ro_config[section], name)
           THEN Visit(settings.ro_config[section][name],
                      CONFIG_FILE_NETWORK_SECTION)
           ELSE <<>>
      [] source = CONFIG_FILE_DEFAULT_SECTION ->
           IF FindKey(settings.ro_config, <<>>)
              /\ FindKey(settings.ro_config[<<>>], name)
           THEN Visit(settings.ro_config[<<>>][name],
                      CONFIG_FILE_DEFAULT_SECTION)
           ELSE <<>>

\* MergeSettings: the calls fn(span, source) it makes, in order
MergeSettings(settings, section, name) ==
    SourceVisit(settings, section, name, SourceOrder[1])
    \o SourceVisit(settings, section, name, SourceOrder[2])
    \o SourceVisit(settings, section, name, SourceOrder[3])
    \o SourceVisit(settings, section, name, SourceOrder[4])
    \o SourceVisit(settings, section, name, SourceOrder[5])

IsConfigSource(source) ==
    source \in {CONFIG_FILE_NETWORK_SECTION, CONFIG_FILE_DEFAULT_SECTION}

\* GetSettingFn ignoring the default section also when it ends in a negation
GetSettingFnIgnoreNegated(acc, span, source, ignore_default_section_config, ignore_nonpersistent, get_chain_name) ==
    IF acc.done THEN acc
    ELSE IF ignore_default_section_config
            /\ source = CONFIG_FILE_DEFAULT_SECTION THEN acc
    ELSE IF ignore_nonpersistent /\ source \in {COMMAND_LINE, FORCED}
         THEN acc
    ELSE IF get_chain_name /\ last_negated(span) THEN acc
    ELSE IF ~empty(span)
         THEN [result |-> IF IsConfigSource(source) /\ ~get_chain_name
                          THEN span[negated(span) + 1]
                          ELSE span[Len(span)],
               done |-> TRUE]
    ELSE IF last_negated(span)
         THEN [result |-> BoolV(FALSE), done |-> TRUE]
    ELSE acc

\* GetSettingFn taking the last value from every source
GetSettingFnLastValue(acc, span, source, ignore_default_section_config, ignore_nonpersistent, get_chain_name) ==
    IF acc.done THEN acc
    ELSE IF ignore_default_section_config
            /\ source = CONFIG_FILE_DEFAULT_SECTION
            /\ ~last_negated(span) THEN acc
    ELSE IF ignore_nonpersistent /\ source \in {COMMAND_LINE, FORCED}
         THEN acc
    ELSE IF get_chain_name /\ last_negated(span) THEN acc
    ELSE IF ~empty(span)
         THEN [result |-> span[Len(span)], done |-> TRUE]
    ELSE IF last_negated(span)
         THEN [result |-> BoolV(FALSE), done |-> TRUE]
    ELSE acc

\* GetSettingFn applying a trailing negation when the chain name is resolved
GetSettingFnNoSkip(acc, span, source, ignore_default_section_config, ignore_nonpersistent, get_chain_name) ==
    IF acc.done THEN acc
    ELSE IF ignore_default_section_config
            /\ source = CONFIG_FILE_DEFAULT_SECTION
            /\ ~last_negated(span) THEN acc
    ELSE IF ignore_nonpersistent /\ source \in {COMMAND_LINE, FORCED}
         THEN acc
    ELSE IF ~empty(span)
         THEN [result |-> IF IsConfigSource(source) /\ ~get_chain_name
                          THEN span[negated(span) + 1]
                          ELSE span[Len(span)],
               done |-> TRUE]
    ELSE IF last_negated(span)
         THEN [result |-> BoolV(FALSE), done |-> TRUE]
    ELSE acc

\* GetSettingFn passing over the command line only when nonpersistent
\* sources are ignored
GetSettingFnForcedPersistent(acc, span, source, ignore_default_section_config, ignore_nonpersistent, get_chain_name) ==
    IF acc.done THEN acc
    ELSE IF ignore_default_section_config
            /\ source = CONFIG_FILE_DEFAULT_SECTION
            /\ ~last_negated(span) THEN acc
    ELSE IF ignore_nonpersistent /\ source = COMMAND_LINE THEN acc
    ELSE IF get_chain_name /\ last_negated(span) THEN acc
    ELSE IF ~empty(span)
         THEN [result |-> IF IsConfigSource(source) /\ ~get_chain_name
                          THEN span[negated(span) + 1]
                          ELSE span[Len(span)],
               done |-> TRUE]
    ELSE IF last_negated(span)
         THEN [result |-> BoolV(FALSE), done |-> TRUE]
    ELSE acc

\* the callback of GetSetting applied to one visit
GetSettingFn(acc, span, source, ignore_default_section_config, ignore_nonpersistent, get_chain_name) ==
    LET never_ignore_negated_setting == last_negated(span)
        reverse_precedence == IsConfigSource(source) /\ ~get_chain_name
        skip_negated_command_line == get_chain_name
    IN  IF acc.done THEN acc
        ELSE IF ignore_default_section_config
                /\ source = CONFIG_FILE_DEFAULT_SECTION
                /\ ~never_ignore_negated_setting THEN acc
        ELSE IF ignore_nonpersistent /\ source \in {COMMAND_LINE, FORCED}
             THEN acc
        ELSE IF skip_negated_command_line /\ last_negated(span) THEN acc
        ELSE IF ~empty(span)
             THEN [result |-> IF reverse_precedence
                              THEN span[negated(span) + 1]
                              ELSE span[Len(span)],
                   done |-> TRUE]
        ELSE IF last_negated(span)
             THEN [result |-> BoolV(FALSE), done |-> TRUE]
        ELSE acc

RECURSIVE GetSettingFold(_, _, _, _, _, _)
GetSettingFold(visits, i, acc, ids, inp, gcn) ==
    IF i > Len(visits) THEN acc
    ELSE GetSettingFold(visits, i + 1,
             GetSettingFn(acc, visits[i].span, visits[i].source, ids, inp, gcn),
             ids, inp, gcn)

\* util::GetSetting
GetSetting(settings, section, name, ignore_default_section_config, ignore_nonpersistent, get_chain_name) ==
    GetSettingFold(MergeSettings(settings, section, name), 1,
                   [result |-> NullV, done |-> FALSE],
                   ignore_default_section_config, ignore_nonpersistent,
                   get_chain_name).result

RECURSIVE Flatten(_)
\* the values of a span appended to a result, array values element-wise
Flatten(values) ==
    IF values = <<>> THEN <<>>
    ELSE (IF isArray(Head(values)) THEN Head(values).a ELSE <<Head(values)>>)
         \o Flatten(Tail(values))

\* GetSettingsListFn never passing over the default section
GetSettingsListFnKeepDefault(acc, span, source, ignore_default_section_config) ==
    LET add_zombie_config_values ==
            IsConfigSource(source) /\ ~acc.prev_negated_empty
        result == IF ~acc.done \/ add_zombie_config_values
                  THEN acc.result \o Flatten(SpanValues(span))
                  ELSE acc.result
    IN  [result |-> result,
         done |-> acc.done \/ negated(span) > 0 \/ source = FORCED,
         prev_negated_empty |->
             acc.prev_negated_empty \/ (last_negated(span) /\ result = <<>>)]

\* GetSettingsListFn adding nothing once the result is complete
GetSettingsListFnNoZombie(acc, span, source, ignore_default_section_config) ==
    IF ignore_default_section_config
       /\ source = CONFIG_FILE_DEFAULT_SECTION THEN acc
    ELSE LET result == IF ~acc.done
                       THEN acc.result \o Flatten(SpanValues(span))
                       ELSE acc.result
         IN [result |-> result,
             done |-> acc.done \/ negated(span) > 0 \/ source = FORCED,
             prev_negated_empty |->
                 acc.prev_negated_empty
                 \/ (last_negated(span) /\ result = <<>>)]

\* GetSettingsListFn adding config values after an earlier negated, empty span
GetSettingsListFnRevive(acc, span, source, ignore_default_section_config) ==
    LET add_zombie_config_values ==
            IsConfigSource(source) /\ acc.prev_negated_empty
    IN  IF ignore_default_section_config
           /\ source = CONFIG_FILE_DEFAULT_SECTION THEN acc
        ELSE LET result == IF ~acc.done \/ add_zombie_config_values
                           THEN acc.result \o Flatten(SpanValues(span))
                           ELSE acc.result
             IN [result |-> result,
                 done |-> acc.done \/ negated(span) > 0 \/ source = FORCED,
                 prev_negated_empty |->
                     acc.prev_negated_empty
                     \/ (last_negated(span) /\ result = <<>>)]

\* the callback of GetSettingsList applied to one visit
GetSettingsListFn(acc, span, source, ignore_default_section_config) ==
    LET add_zombie_config_values ==
            IsConfigSource(source) /\ ~acc.prev_negated_empty
    IN  IF ignore_default_section_config
           /\ source = CONFIG_FILE_DEFAULT_SECTION THEN acc
        ELSE LET result == IF ~acc.done \/ add_zombie_config_values
                           THEN acc.result \o Flatten(SpanValues(span))
                           ELSE acc.result
             IN [result |-> result,
                 done |-> acc.done \/ negated(span) > 0 \/ source = FORCED,
                 prev_negated_empty |->
                     acc.prev_negated_empty
                     \/ (last_negated(span) /\ result = <<>>)]

RECURSIVE GetSettingsListFold(_, _, _, _)
GetSettingsListFold(visits, i, acc, ids) ==
    IF i > Len(visits) THEN acc
    ELSE GetSettingsListFold(visits, i + 1,
             GetSettingsListFn(acc, visits[i].span, visits[i].source, ids),
             ids)

\* util::GetSettingsList
GetSettingsList(settings, section, name, ignore_default_section_config) ==
    GetSettingsListFold(MergeSettings(settings, section, name), 1,
                        [result |-> <<>>, done |-> FALSE,
                         prev_negated_empty |-> FALSE],
                        ignore_default_section_config).result

\* the callback of OnlyHasDefaultSectionSetting counting negated spans too
OnlyHasDefaultSectionSettingFnAnySpan(acc, span, source) ==
    IF span = <<>> THEN acc
    ELSE IF source = CONFIG_FILE_DEFAULT_SECTION
    THEN [acc EXCEPT !.has_default_section_setting = TRUE]
    ELSE [acc EXCEPT !.has_other_setting = TRUE]

\* the callback of OnlyHasDefaultSectionSetting applied to one visit
OnlyHasDefaultSectionSettingFn(acc, span, source) ==
    IF empty(span) THEN acc
    ELSE IF source = CONFIG_FILE_DEFAULT_SECTION
    THEN [acc EXCEPT !.has_default_section_setting = TRUE]
    ELSE [acc EXCEPT !.has_other_setting = TRUE]

RECURSIVE OnlyHasDefaultSectionSettingFold(_, _, _)
OnlyHasDefaultSectionSettingFold(visits, i, acc) ==
    IF i > Len(visits) THEN acc
    ELSE OnlyHasDefaultSectionSettingFold(visits, i + 1,
             OnlyHasDefaultSectionSettingFn(acc, visits[i].span,
                                            visits[i].source))

\* util::OnlyHasDefaultSectionSetting
OnlyHasDefaultSectionSetting(settings, section, name) ==
    LET acc == OnlyHasDefaultSectionSettingFold(
                   MergeSettings(settings, section, name), 1,
                   [has_default_section_setting |-> FALSE,
                    has_other_setting |-> FALSE])
    IN  acc.has_default_section_setting /\ ~acc.has_other_setting

----------------------------------------------------------------------------
(* Key and value interpretation *)

\* TrimString(str, " \t\r\n")
RECURSIVE TrimLeft(_)
TrimLeft(s) ==
    IF s # <<>> /\ Head(s) \in Whitespace THEN TrimLeft(Tail(s)) ELSE s

RECURSIVE TrimRight(_)
TrimRight(s) ==
    IF s # <<>> /\ s[Len(s)] \in Whitespace
    THEN TrimRight(SubSeq(s, 1, Len(s) - 1)) ELSE s

TrimString(s) == TrimRight(TrimLeft(s))

\* std::string::find(substring) != npos
Contains(s, p) ==
    \E i \in 1..(Len(s) - Len(p) + 1) : SubSeq(s, i, i + Len(p) - 1) = p

\* std::string::rfind(char): the last position of c in s (1-based), 0 for npos
RFind(s, c) ==
    LET hits == {i \in 1..Len(s) : s[i] = c}
    IN IF hits = {} THEN 0 ELSE CHOOSE i \in hits : \A j \in hits : i >= j

SettingName(arg) == IF Len(arg) > 0 /\ arg[1] = "-" THEN Tail(arg) ELSE arg

\* InterpretKey splitting at the last "." of the key
InterpretKeyLastDot(key) ==
    LET option_index == RFind(key, ".")
        section == IF option_index # 0 THEN Head1(key, option_index - 1)
                   ELSE <<>>
        rest == IF option_index # 0 THEN Tail1(key, option_index + 1)
                ELSE key
        neg == Head1(rest, 2) = <<"n", "o">>
    IN [name |-> IF neg THEN Tail1(rest, 3) ELSE rest,
        section |-> section,
        negated |-> neg]

InterpretKey(key) ==
    LET option_index == Find(key, ".")
        section == IF option_index # 0 THEN Head1(key, option_index - 1)
                   ELSE <<>>
        rest == IF option_index # 0 THEN Tail1(key, option_index + 1)
                ELSE key
        neg == Head1(rest, 2) = <<"n", "o">>
    IN [name |-> IF neg THEN Tail1(rest, 3) ELSE rest,
        section |-> section,
        negated |-> neg]

DigitValue(c) == (CHOOSE i \in 1..10 : Digits[i] = c) - 1

IsDigit(c) == \E i \in 1..10 : Digits[i] = c

RECURSIVE DigitPrefix(_)
DigitPrefix(s) ==
    IF s # <<>> /\ IsDigit(Head(s)) THEN <<Head(s)>> \o DigitPrefix(Tail(s))
    ELSE <<>>

RECURSIVE StripZeros(_)
\* a decimal magnitude without leading zeros ("0" for zero)
StripZeros(ds) ==
    IF Len(ds) > 1 /\ Head(ds) = "0" THEN StripZeros(Tail(ds)) ELSE ds

RECURSIVE DigitsLess(_, _)
DigitsLess(x, y) ==
    IF x = <<>> THEN FALSE
    ELSE IF Head(x) = Head(y) THEN DigitsLess(Tail(x), Tail(y))
    ELSE DigitValue(Head(x)) < DigitValue(Head(y))

\* x < y for decimal magnitudes without leading zeros
MagnitudeLess(x, y) ==
    Len(x) < Len(y) \/ (Len(x) = Len(y) /\ DigitsLess(x, y))

\* the largest magnitude of a signed integer of the given width
MaxMagnitude(bits, minus) ==
    IF bits = 32
    THEN <<"2","1","4","7","4","8","3","6","4">>
         \o (IF minus THEN <<"8">> ELSE <<"7">>)
    ELSE <<"9","2","2","3","3","7","2","0","3","6","8","5","4","7","7","5",
           "8","0">> \o (IF minus THEN <<"8">> ELSE <<"7">>)

Integer(minus, magnitude) ==
    [neg |-> minus /\ magnitude # <<"0">>, mag |-> magnitude]

Zero == Integer(FALSE, <<"0">>)

\* LocaleIndependentAtoi<T> for a signed T of the given width: white space is
\* trimmed, one leading + is skipped, the longest decimal prefix is read,
\* anything else gives 0, and an out-of-range value saturates
LocaleIndependentAtoi(str, bits) ==
    LET s0 == TrimString(str)
        plus == s0 # <<>> /\ s0[1] = "+"
        s == IF plus THEN Tail(s0) ELSE s0
        minus == s # <<>> /\ s[1] = "-"
        ds == DigitPrefix(IF minus THEN Tail(s) ELSE s)
        magnitude == StripZeros(ds)
    IN  IF plus /\ minus THEN Zero
        ELSE IF ds = <<>> THEN Zero
        ELSE IF MagnitudeLess(MaxMagnitude(bits, minus), magnitude)
        THEN Integer(minus, MaxMagnitude(bits, minus))
        ELSE Integer(minus, magnitude)

\* std::from_chars over the whole of str for a signed integer of the given
\* width: an optional '-', then decimal digits up to the end of the string,
\* and a value that fits the type
ToIntegral(str, bits) ==
    LET minus == str # <<>> /\ str[1] = "-"
        rest == IF minus THEN Tail(str) ELSE str
        ds == DigitPrefix(rest)
        magnitude == StripZeros(ds)
    IN  IF ds = <<>> \/ Len(ds) # Len(rest)
        THEN [ok |-> FALSE, n |-> Zero]
        ELSE IF MagnitudeLess(MaxMagnitude(bits, minus), magnitude)
        THEN [ok |-> FALSE, n |-> Zero]
        ELSE [ok |-> TRUE, n |-> Integer(minus, magnitude)]

\* ParseIntegral<T>: one leading '+' is allowed, "+-" is not
ParseIntegral(str, bits) ==
    IF Len(str) >= 2 /\ str[1] = "+" /\ str[2] = "-"
    THEN [ok |-> FALSE, n |-> Zero]
    ELSE ToIntegral(IF str # <<>> /\ str[1] = "+" THEN Tail(str) ELSE str,
                    bits)

\* ParseInt64 reading the string the way LocaleIndependentAtoi does
ParseInt64Lenient(str) == [ok |-> TRUE, n |-> LocaleIndependentAtoi(str, 64)]

\* ParseInt64(str, &n): whether it succeeded and the value put into n
ParseInt64(str) == ParseIntegral(str, 64)

\* InterpretBool without the test for the empty string
InterpretBoolEmptyFalse(strValue) ==
    LocaleIndependentAtoi(strValue, 32) # Zero

InterpretBool(strValue) ==
    IF strValue = <<>> THEN TRUE
    ELSE LocaleIndependentAtoi(strValue, 32) # Zero

\* ArgsManager flags
ALLOW_ANY == "ALLOW_ANY"
DISALLOW_NEGATION == "DISALLOW_NEGATION"
DISALLOW_ELISION == "DISALLOW_ELISION"
NETWORK_ONLY == "NETWORK_ONLY"
COMMAND == "COMMAND"

\* InterpretValue storing false for every negated key
InterpretValueNoDouble(key, has_value, value, flags) ==
    IF key.negated
    THEN [ok |-> TRUE, value |-> BoolV(FALSE), error |-> ""]
    ELSE [ok |-> TRUE, value |-> StrV(IF has_value THEN value ELSE <<>>),
          error |-> ""]

\* InterpretValue: has_value is whether the value pointer is non-null
InterpretValue(key, has_value, value, flags) ==
    IF key.negated
    THEN IF DISALLOW_NEGATION \in flags
         THEN [ok |-> FALSE, value |-> NullV, error |-> "negation forbidden"]
         ELSE IF has_value /\ ~InterpretBool(value)
         THEN [ok |-> TRUE, value |-> BoolV(TRUE), error |-> ""]
         ELSE [ok |-> TRUE, value |-> BoolV(FALSE), error |-> ""]
    ELSE IF ~has_value /\ DISALLOW_ELISION \in flags
    THEN [ok |-> FALSE, value |-> NullV, error |-> "value required"]
    ELSE [ok |-> TRUE, value |-> StrV(IF has_value THEN value ELSE <<>>),
          error |-> ""]

\* m_available_args as the registration calls (AddArg) of startup leave it:
\* option name -> flags
m_available_args ==
    [n \in {<<"-">> \o S_foo, <<"-">> \o S_conf, <<"-">> \o S_includeconf,
            <<"-">> \o S_regtest, <<"-">> \o S_signet, <<"-">> \o S_testnet,
            <<"-">> \o S_chain, S_send} |->
        IF n = S_send THEN {COMMAND} ELSE {ALLOW_ANY}]

\* m_network_only_args: the registered names carrying NETWORK_ONLY
m_network_only_args ==
    {n \in DOMAIN m_available_args : NETWORK_ONLY \in m_available_args[n]}

\* GetArgFlags finding every name, with no special flags
GetArgFlagsAnyName(name) == [found |-> TRUE, flags |-> {ALLOW_ANY}]

GetArgFlags(name) ==
    IF name \in DOMAIN m_available_args
    THEN [found |-> TRUE, flags |-> m_available_args[name]]
    ELSE [found |-> FALSE, flags |-> {}]

\* the value inserted at the front of map[key]
PushFront(map, key, value) ==
    Put(map, key, <<value>> \o (IF FindKey(map, key) THEN map[key] ELSE <<>>))

\* map[key].push_back(value)
PushBack(map, key, value) ==
    Put(map, key, (IF FindKey(map, key) THEN map[key] ELSE <<>>) \o <<value>>)

----------------------------------------------------------------------------
(* Command line *)

\* the loop of ParseParameters from argv[i] on; argv[1] is the program name
RECURSIVE ParseParametersFrom(_, _, _, _, _)
ParseParametersFrom(argv, i, options, command, accept_any) ==
    IF i > Len(argv) \/ argv[i] = <<"-">>
    THEN [ok |-> TRUE, error |-> "", options |-> options, command |-> command]
    ELSE
    LET is_index == Find(argv[i], "=")
        has_val == is_index # 0
        val == Tail1(argv[i], is_index + 1)
        key == IF has_val THEN Head1(argv[i], is_index - 1) ELSE argv[i]
    IN  IF key = <<>> \/ key[1] # "-"
        THEN LET flags == GetArgFlags(key)
             IN IF ~accept_any /\ command = <<>>
                   /\ (~flags.found \/ COMMAND \notin flags.flags)
                THEN [ok |-> FALSE, error |-> "Invalid command",
                      options |-> options, command |-> command]
                ELSE [ok |-> TRUE, error |-> "", options |-> options,
                      command |-> command \o <<key>>
                                  \o Tail1(argv, i + 1)]
        ELSE
        LET k1 == IF Len(key) > 1 /\ key[2] = "-" THEN Tail(key) ELSE key
            keyinfo == InterpretKey(Tail(k1))
            flags == GetArgFlags(<<"-">> \o keyinfo.name)
            value == InterpretValue(keyinfo, has_val, val, flags.flags)
        IN  IF ~flags.found \/ keyinfo.section # <<>>
            THEN [ok |-> FALSE, error |-> "Invalid parameter",
                  options |-> options, command |-> command]
            ELSE IF ~value.ok
            THEN [ok |-> FALSE, error |-> value.error,
                  options |-> options, command |-> command]
            ELSE ParseParametersFrom(argv, i + 1,
                     PushBack(options, keyinfo.name, value.value),
                     command, accept_any)

\* ArgsManager::GetCommand on the given command list
GetCommand(command, accept_any) ==
    IF command = <<>> THEN [has |-> FALSE, command |-> <<>>, args |-> <<>>]
    ELSE IF ~accept_any
    THEN [has |-> TRUE, command |-> command[1], args |-> Tail(command)]
    ELSE [has |-> TRUE, command |-> <<>>, args |-> command]

\* ParseParameters without the final look at includeconf
ParseParametersResultAnyInclude(argv, command, accept_any) ==
    ParseParametersFrom(argv, 2, EmptyMap, command, accept_any)

\* what ParseParameters(argv) returns and leaves in the store
ParseParametersResult(argv, command, accept_any) ==
    LET r == ParseParametersFrom(argv, 2, EmptyMap, command, accept_any)
    IN  IF r.ok /\ FindKey(r.options, S_includeconf)
           /\ ~empty(r.options[S_includeconf])
        THEN [r EXCEPT !.ok = FALSE, !.error = "-includeconf from commandline"]
        ELSE r

----------------------------------------------------------------------------
(* Config file *)

SectionInfo(name, file, line) ==
    [m_name |-> name, m_file |-> file, m_line |-> line]

\* GetConfigOptions from line linenr on; a stream is its sequence of lines
RECURSIVE GetConfigOptionsFrom(_, _, _, _, _, _)
GetConfigOptionsFrom(stream, filepath, linenr, prefix, options, sections) ==
    IF linenr > Len(stream)
    THEN [ok |-> TRUE, error |-> "", line |-> 0, options |-> options,
          sections |-> sections]
    ELSE
    LET hash == Find(stream[linenr], "#")
        used_hash == hash # 0
        str == TrimString(IF used_hash THEN Head1(stream[linenr], hash - 1)
                          ELSE stream[linenr])
        eq == Find(str, "=")
        name == prefix \o TrimString(Head1(str, eq - 1))
        value == TrimString(Tail1(str, eq + 1))
        dot == RFind(name, ".")
        fail(e) == [ok |-> FALSE, error |-> e, line |-> linenr,
                    options |-> options, sections |-> sections]
    IN  IF str = <<>>
        THEN GetConfigOptionsFrom(stream, filepath, linenr + 1, prefix,
                                  options, sections)
        ELSE IF str[1] = "[" /\ str[Len(str)] = "]"
        THEN LET section == SubSeq(str, 2, Len(str) - 1)
             IN GetConfigOptionsFrom(stream, filepath, linenr + 1,
                    section \o <<".">>, options,
                    sections \o <<SectionInfo(section, filepath, linenr)>>)
        ELSE IF str[1] = "-"
        THEN fail("options must be specified without leading -")
        ELSE IF eq # 0
        THEN IF used_hash
                /\ Contains(name, <<"r","p","c","p","a","s","s","w","o","r","d">>)
             THEN fail("using # in rpcpassword can be ambiguous")
             ELSE GetConfigOptionsFrom(stream, filepath, linenr + 1, prefix,
                      options \o <<[first |-> name, second |-> value]>>,
                      IF dot # 0 /\ Len(prefix) <= dot - 1
                      THEN sections
                           \o <<SectionInfo(Head1(name, dot - 1), filepath,
                                            linenr)>>
                      ELSE sections)
        ELSE IF Head1(str, 2) = <<"n", "o">>
        THEN fail("parse error, use no...=1 for a negated option")
        ELSE fail("parse error")

\* the lines of the stream that are not blank once the comment is cut off
NonBlankLines(stream) ==
    SelectSeq(stream,
              LAMBDA l : TrimString(IF Find(l, "#") # 0
                                    THEN Head1(l, Find(l, "#") - 1)
                                    ELSE l) # <<>>)

\* GetConfigOptions numbering only the lines that are not blank
GetConfigOptionsSkipBlank(stream, filepath, sections) ==
    GetConfigOptionsFrom(NonBlankLines(stream), filepath, 1, <<>>, <<>>,
                         sections)

GetConfigOptions(stream, filepath, sections) ==
    GetConfigOptionsFrom(stream, filepath, 1, <<>>, <<>>, sections)

IsConfSupported(key) == key.name # S_conf

\* ro_config[section][name] = {value}: the list is replaced
PushBackConfigReplace(config, section, name, value) ==
    Put(config, section,
        Put(IF FindKey(config, section) THEN config[section] ELSE EmptyMap,
            name, <<value>>))

\* ro_config[section][name].push_back(value)
PushBackConfig(config, section, name, value) ==
    Put(config, section,
        PushBack(IF FindKey(config, section) THEN config[section]
                 ELSE EmptyMap, name, value))

\* the loop of ReadConfigStream over the parsed options, from option i on
RECURSIVE ReadConfigOptionsFrom(_, _, _, _)
ReadConfigOptionsFrom(options, i, config, ignore_invalid_keys) ==
    IF i > Len(options)
    THEN [ok |-> TRUE, error |-> "", config |-> config]
    ELSE
    LET key == InterpretKey(options[i].first)
        flags == GetArgFlags(<<"-">> \o key.name)
        value == InterpretValue(key, TRUE, options[i].second, flags.flags)
    IN  IF ~IsConfSupported(key)
        THEN [ok |-> FALSE, error |-> "conf cannot be set in the configuration file",
              config |-> config]
        ELSE IF flags.found
        THEN IF ~value.ok
             THEN [ok |-> FALSE, error |-> value.error, config |-> config]
             ELSE ReadConfigOptionsFrom(options, i + 1,
                      PushBackConfig(config, key.section, key.name,
                                     value.value),
                      ignore_invalid_keys)
        ELSE IF ignore_invalid_keys
        THEN ReadConfigOptionsFrom(options, i + 1, config,
                                   ignore_invalid_keys)
        ELSE [ok |-> FALSE, error |-> "Invalid configuration value",
              config |-> config]

\* what ReadConfigStream returns and leaves in ro_config and the sections
ReadConfigStreamResult(stream, filepath, config, sections, ignore_invalid_keys) ==
    LET parsed == GetConfigOptions(stream, filepath, sections)
        read == ReadConfigOptionsFrom(parsed.options, 1, config,
                                      ignore_invalid_keys)
    IN  IF ~parsed.ok
        THEN [ok |-> FALSE, error |-> parsed.error, line |-> parsed.line,
              config |-> config, sections |-> parsed.sections]
        ELSE [ok |-> read.ok, error |-> read.error, line |-> 0,
              config |-> read.config, sections |-> parsed.sections]

----------------------------------------------------------------------------
(* The persisted settings file.  A file holds the tokens of a JSON text. *)

Tok(kind, text) == [k |-> kind, s |-> text]
Punct(kind) == Tok(kind, <<>>)

NoFile == [exists |-> FALSE, data |-> <<>>]
File(data) == [exists |-> TRUE, data |-> data]

\* UniValue::write of a value that is not an object
WriteScalar(v) ==
    CASE isNull(v) -> <<Punct("null")>>
      [] isTrue(v) -> <<Punct("true")>>
      [] isFalse(v) -> <<Punct("false")>>
      [] isNum(v) -> <<Tok("num", v.s)>>
      [] OTHER -> <<Tok("str", v.s)>>

RECURSIVE WriteElements(_)
WriteElements(vs) ==
    IF vs = <<>> THEN <<>>
    ELSE WriteScalar(Head(vs))
         \o (IF Len(vs) > 1 THEN <<Punct(",")>> ELSE <<>>)
         \o WriteElements(Tail(vs))

WriteValue(v) ==
    IF isArray(v) THEN <<Punct("[")>> \o WriteElements(v.a) \o <<Punct("]")>>
    ELSE IF isObject(v) THEN <<Punct("{"), Punct("}")>>
    ELSE WriteScalar(v)

RECURSIVE WriteMembers(_, _)
WriteMembers(keys, values) ==
    IF keys = <<>> THEN <<>>
    ELSE <<Tok("str", Head(keys)), Punct(":")>> \o WriteValue(Head(values))
         \o (IF Len(keys) > 1 THEN <<Punct(",")>> ELSE <<>>)
         \o WriteMembers(Tail(keys), Tail(values))

\* UniValue::write of an object with the given keys and values
WriteObject(keys, values) ==
    <<Punct("{")>> \o WriteMembers(keys, values) \o <<Punct("}")>>

IsScalarTok(tok) == tok.k \in {"null", "true", "false", "num", "str"}

ScalarOf(tok) ==
    CASE tok.k = "null" -> NullV
      [] tok.k = "true" -> BoolV(TRUE)
      [] tok.k = "false" -> BoolV(FALSE)
      [] tok.k = "num" -> NumV(tok.s)
      [] OTHER -> StrV(tok.s)

ParseFail == [ok |-> FALSE, v |-> NullV, next |-> 0]

\* the elements of an array from token i on, up to the closing bracket
RECURSIVE ReadElements(_, _, _)
ReadElements(toks, i, acc) ==
    IF i > Len(toks) THEN ParseFail
    ELSE IF toks[i].k = "]" /\ acc = <<>>
    THEN [ok |-> TRUE, v |-> ArrV(acc), next |-> i + 1]
    ELSE IF ~IsScalarTok(toks[i]) \/ i + 1 > Len(toks) THEN ParseFail
    ELSE IF toks[i + 1].k = "]"
    THEN [ok |-> TRUE, v |-> ArrV(acc \o <<ScalarOf(toks[i])>>),
          next |-> i + 2]
    ELSE IF toks[i + 1].k = ","
    THEN ReadElements(toks, i + 2, acc \o <<ScalarOf(toks[i])>>)
    ELSE ParseFail

\* one value from token i on
ReadValue(toks, i) ==
    IF i > Len(toks) THEN ParseFail
    ELSE IF IsScalarTok(toks[i])
    THEN [ok |-> TRUE, v |-> ScalarOf(toks[i]), next |-> i + 1]
    ELSE IF toks[i].k = "[" THEN ReadElements(toks, i + 1, <<>>)
    ELSE IF toks[i].k = "{" /\ i + 1 <= Len(toks) /\ toks[i + 1].k = "}"
    THEN [ok |-> TRUE, v |-> ObjV, next |-> i + 2]
    ELSE ParseFail

ObjFail == [ok |-> FALSE, keys |-> <<>>, values |-> <<>>, next |-> 0]

\* the members of an object from token i on, up to the closing brace
RECURSIVE ReadMembers(_, _, _, _)
ReadMembers(toks, i, keys, values) ==
    IF i > Len(toks) THEN ObjFail
    ELSE IF toks[i].k = "}" /\ keys = <<>>
    THEN [ok |-> TRUE, keys |-> keys, values |-> values, next |-> i + 1]
    ELSE IF toks[i].k # "str" \/ i + 1 > Len(toks) \/ toks[i + 1].k # ":"
    THEN ObjFail
    ELSE LET val == ReadValue(toks, i + 2)
         IN IF ~val.ok \/ val.next > Len(toks) THEN ObjFail
            ELSE IF toks[val.next].k = "}"
            THEN [ok |-> TRUE, keys |-> keys \o <<toks[i].s>>,
                  values |-> values \o <<val.v>>, next |-> val.next + 1]
            ELSE IF toks[val.next].k = ","
            THEN ReadMembers(toks, val.next + 1, keys \o <<toks[i].s>>,
                             values \o <<val.v>>)
            ELSE ObjFail

\* UniValue::read: the whole text must be one value
UniValueRead(toks) ==
    IF toks # <<>> /\ toks[1].k = "{"
    THEN LET obj == ReadMembers(toks, 2, <<>>, <<>>)
         IN [ok |-> obj.ok /\ obj.next = Len(toks) + 1, isObject |-> TRUE,
             keys |-> obj.keys, values |-> obj.values]
    ELSE LET val == ReadValue(toks, 1)
         IN [ok |-> val.ok /\ val.next = Len(toks) + 1, isObject |-> FALSE,
             keys |-> <<>>, values |-> <<>>]

\* the loop of ReadSettings: values.emplace(key, value), an error per duplicate
RECURSIVE EmplaceAll(_, _, _, _)
EmplaceAll(in_keys, in_values, i, acc) ==
    IF i > Len(in_keys) THEN acc
    ELSE EmplaceAll(in_keys, in_values, i + 1,
             IF FindKey(acc.values, in_keys[i])
             THEN [acc EXCEPT !.errors = @ \o <<"Found duplicate key">>]
             ELSE [acc EXCEPT !.values = Put(@, in_keys[i], in_values[i])])

\* util::ReadSettings once values and errors are cleared: is_open is whether
\* the file opens, got how many tokens of it the stream delivers and fail
\* whether the stream reports a failed read
ReadSettingsFrom(file, values, errors, is_open, got, fail) ==
    LET in == UniValueRead(SubSeq(file.data, 1, got))
        read == EmplaceAll(in.keys, in.values, 1,
                           [values |-> values, errors |-> errors])
    IN  IF ~file.exists
        THEN [ok |-> TRUE, values |-> values, errors |-> errors]
        ELSE IF ~is_open
        THEN [ok |-> FALSE, values |-> values,
              errors |-> errors \o <<"Please check permissions">>]
        ELSE IF ~in.ok
        THEN [ok |-> FALSE, values |-> values,
              errors |-> errors \o <<"Unable to parse settings file">>]
        ELSE IF fail
        THEN [ok |-> FALSE, values |-> values,
              errors |-> errors \o <<"Failed reading settings file">>]
        ELSE IF ~in.isObject
        THEN [ok |-> FALSE, values |-> values,
              errors |-> errors \o <<"Found non-object value">>]
        ELSE [ok |-> read.errors = <<>>, values |-> read.values,
              errors |-> read.errors]

\* ReadSettings without values.clear() and errors.clear()
ReadSettingsNoClear(file, values, errors, is_open, got, fail) ==
    ReadSettingsFrom(file, values, errors, is_open, got, fail)

\* util::ReadSettings(path, values, errors)
ReadSettings(file, values, errors, is_open, got, fail) ==
    ReadSettingsFrom(file, EmptyMap, <<>>, is_open, got, fail)

\* ReadSettings into an empty map of a file that opens and is read whole
ReadBack(file) ==
    ReadSettings(file, EmptyMap, <<>>, TRUE, Len(file.data), FALSE)

\* the characters in use, in the order of their codes
Alphabet ==
    <<"\t", "\n", "\r", " ", "#", "+", "-", ".">> \o Digits
    \o <<"=", "[", "]", "a", "b", "c", "d", "e", "f", "g", "h", "i", "j", "k",
         "l", "m", "n", "o", "p", "q", "r", "s", "t", "u", "v", "w", "x", "y",
         "z">>

CharRank(c) == CHOOSE i \in 1..Len(Alphabet) : Alphabet[i] = c

\* std::less<std::string>: the order in which a std::map iterates its keys
RECURSIVE StrLess(_, _)
StrLess(x, y) ==
    IF y = <<>> THEN FALSE
    ELSE IF x = <<>> THEN TRUE
    ELSE IF Head(x) = Head(y) THEN StrLess(Tail(x), Tail(y))
    ELSE CharRank(Head(x)) < CharRank(Head(y))

RECURSIVE SortedKeys(_)
SortedKeys(keys) ==
    IF keys = {} THEN <<>>
    ELSE LET least == CHOOSE k \in keys : \A j \in keys \ {k} : StrLess(k, j)
         IN <<least>> \o SortedKeys(keys \ {least})

\* the text util::WriteSettings sends to the file: every entry of the map,
\* pushed in the order of the map
WriteSettingsText(values) ==
    LET keys == SortedKeys(DOMAIN values)
    IN WriteObject(keys, [i \in 1..Len(keys) |-> values[keys[i]]])

----------------------------------------------------------------------------
(* ArgsManager: resolution *)

UseDefaultSection(arg) ==
    m_network = S_main \/ arg \notin m_network_only_args

\* ArgsManager::GetSetting
ArgsGetSetting(arg) ==
    GetSetting(m_settings, m_network, SettingName(arg),
               ~UseDefaultSection(arg), FALSE, FALSE)

\* ArgsManager::GetSettingsList
ArgsGetSettingsList(arg) ==
    GetSettingsList(m_settings, m_network, SettingName(arg),
                    ~UseDefaultSection(arg))

\* ArgsManager::GetPersistentSetting
GetPersistentSetting(name) ==
    GetSetting(m_settings, m_network, name,
               ~UseDefaultSection(<<"-">> \o name), TRUE, FALSE)

IsArgSet(strArg) == ~isNull(ArgsGetSetting(strArg))

IsArgNegated(strArg) == isFalse(ArgsGetSetting(strArg))

\* UniValue::get_str: the text of a string value; std::runtime_error for a
\* value of any other type
get_str(value) == [threw |-> ~isStr(value), s |-> value.s]

\* UniValue::getInt<int64_t>: the number when its text is an integer that
\* fits, std::runtime_error otherwise
getInt(value) ==
    LET minus == value.s # <<>> /\ value.s[1] = "-"
        ds == IF minus THEN Tail(value.s) ELSE value.s
        fits == /\ ds # <<>>
                /\ DigitPrefix(ds) = ds
                /\ ~MagnitudeLess(MaxMagnitude(64, minus), StripZeros(ds))
    IN  [threw |-> ~(isNum(value) /\ fits),
         v |-> IF isNum(value) /\ fits THEN Integer(minus, StripZeros(ds))
               ELSE Zero]

\* what a conversion gives: a result, none (std::nullopt), or an exception
Result(v) == [has |-> TRUE, threw |-> FALSE, v |-> v]
Unset(v) == [has |-> FALSE, threw |-> FALSE, v |-> v]
Threw(v) == [has |-> FALSE, threw |-> TRUE, v |-> v]

\* SettingToString handing every value that is not null to get_str
SettingToStringStrict(value) ==
    IF isNull(value) THEN [has |-> FALSE, threw |-> FALSE, s |-> <<>>]
    ELSE [has |-> ~get_str(value).threw, threw |-> get_str(value).threw,
          s |-> get_str(value).s]

\* SettingToString: none for a null value
SettingToString(value) ==
    CASE isNull(value) -> [has |-> FALSE, threw |-> FALSE, s |-> <<>>]
      [] isFalse(value) -> [has |-> TRUE, threw |-> FALSE, s |-> <<"0">>]
      [] isTrue(value) -> [has |-> TRUE, threw |-> FALSE, s |-> <<"1">>]
      [] isNum(value) -> [has |-> TRUE, threw |-> FALSE, s |-> value.s]
      [] OTHER -> [has |-> ~get_str(value).threw,
                   threw |-> get_str(value).threw, s |-> get_str(value).s]

\* SettingToInt
SettingToInt(value) ==
    CASE isNull(value) -> Unset(Zero)
      [] isFalse(value) -> Result(Zero)
      [] isTrue(value) -> Result(Integer(FALSE, <<"1">>))
      [] isNum(value) -> IF getInt(value).threw THEN Threw(Zero)
                         ELSE Result(getInt(value).v)
      [] OTHER -> IF get_str(value).threw THEN Threw(Zero)
                  ELSE Result(LocaleIndependentAtoi(get_str(value).s, 64))

\* SettingToBool
SettingToBool(value) ==
    CASE isNull(value) -> Unset(FALSE)
      [] isBool(value) -> Result(value.b)
      [] OTHER -> IF get_str(value).threw THEN Threw(FALSE)
                  ELSE Result(InterpretBool(get_str(value).s))

\* ArgsManager::GetArg(strArg, strDefault)
GetArg(strArg, strDefault) ==
    LET r == SettingToString(ArgsGetSetting(strArg))
    IN IF r.has THEN r.s ELSE strDefault

\* ArgsManager::GetIntArg(strArg), the overload without a default
GetIntArg(strArg) == SettingToInt(ArgsGetSetting(strArg))

\* ArgsManager::GetBoolArg(strArg), the overload without a default
GetBoolArg(strArg) == SettingToBool(ArgsGetSetting(strArg))

\* the lambda get_net of GetChainName
get_net(arg) ==
    LET value == GetSetting(m_settings, <<>>, SettingName(arg),
                            FALSE, FALSE, TRUE)
    IN  IF isNull(value) THEN FALSE
        ELSE IF isBool(value) THEN value.b
        ELSE InterpretBool(value.s)

BoolToInt(b) == IF b THEN 1 ELSE 0

\* GetChainName accepting any combination of the four options
GetChainNameNoCheck ==
    IF get_net(<<"-">> \o S_regtest) THEN [err |-> FALSE, name |-> S_regtest]
    ELSE IF get_net(<<"-">> \o S_signet)
         THEN [err |-> FALSE, name |-> S_signet]
    ELSE IF get_net(<<"-">> \o S_testnet)
         THEN [err |-> FALSE, name |-> S_test]
    ELSE [err |-> FALSE, name |-> GetArg(<<"-">> \o S_chain, S_main)]

\* ArgsManager::GetChainName: err when it throws, else the name returned
GetChainName ==
    LET fRegTest == get_net(<<"-">> \o S_regtest)
        fSigNet == get_net(<<"-">> \o S_signet)
        fTestNet == get_net(<<"-">> \o S_testnet)
        is_chain_arg_set == IsArgSet(<<"-">> \o S_chain)
    IN  IF BoolToInt(is_chain_arg_set) + BoolToInt(fRegTest)
           + BoolToInt(fSigNet) + BoolToInt(fTestNet) > 1
        THEN [err |-> TRUE, name |-> <<>>]
        ELSE IF fRegTest THEN [err |-> FALSE, name |-> S_regtest]
        ELSE IF fSigNet THEN [err |-> FALSE, name |-> S_signet]
        ELSE IF fTestNet THEN [err |-> FALSE, name |-> S_test]
        ELSE [err |-> FALSE, name |-> GetArg(<<"-">> \o S_chain, S_main)]

----------------------------------------------------------------------------
(* Operations of the controlling thread.  No operation constrains pc or    *)
(* hist: each specification adds its own sequencing and history.           *)

Operations == {"ParseParameters", "ReadConfigStream", "ReadSettingsFile",
               "WriteSettingsFile", "SoftSetArg", "ReadConfigFiles",
               "ReadSettings"}

NoReturn == [called |-> FALSE, ok |-> TRUE, error |-> "", line |-> 0]

\* a return value and error text; line is the line number the text names
ReturnedAt(ok, error, line) ==
    [called |-> TRUE, ok |-> ok, error |-> error, line |-> line]

Returned(ok, error) == ReturnedAt(ok, error, 0)

threadVars == <<cs_args, ld, rd, wr, ss, mp>>

ParseParameters(argv) ==
    LET r == ParseParametersResult(argv, m_command, m_accept_any_command)
    IN  /\ command_line_options' = r.options
        /\ m_command' = r.command
        /\ ret' = [ret EXCEPT !["ParseParameters"] = Returned(r.ok, r.error)]
        /\ UNCHANGED <<forced_settings, rw_settings, ro_config, m_network,
                       m_accept_any_command, m_config_sections, files,
                       threadVars>>

ReadConfigStream(stream, filepath, ignore_invalid_keys) ==
    LET r == ReadConfigStreamResult(stream, filepath, ro_config,
                                    m_config_sections, ignore_invalid_keys)
    IN  /\ ro_config' = r.config
        /\ m_config_sections' = r.sections
        /\ ret' = [ret EXCEPT !["ReadConfigStream"] =
                                  ReturnedAt(r.ok, r.error, r.line)]
        /\ UNCHANGED <<forced_settings, command_line_options, rw_settings,
                       m_network, m_command, m_accept_any_command, files,
                       threadVars>>

\* ForceSetArg storing the value in rw_settings as well
ForceSetArgPersisted(strArg, strValue) ==
    /\ forced_settings' = Put(forced_settings, SettingName(strArg),
                              StrV(strValue))
    /\ rw_settings' = Put(rw_settings, SettingName(strArg), StrV(strValue))
    /\ UNCHANGED <<command_line_options, ro_config, m_network, m_command,
                   m_accept_any_command, m_config_sections, files,
                   threadVars, ret>>

ForceSetArg(strArg, strValue) ==
    /\ forced_settings' = Put(forced_settings, SettingName(strArg),
                              StrV(strValue))
    /\ UNCHANGED <<command_line_options, rw_settings, ro_config, m_network,
                   m_command, m_accept_any_command, m_config_sections, files,
                   threadVars, ret>>

SoftSetArg(strArg, strValue) ==
    /\ IF IsArgSet(strArg)
       THEN /\ ret' = [ret EXCEPT !["SoftSetArg"] = Returned(FALSE, "")]
            /\ UNCHANGED forced_settings
       ELSE /\ ret' = [ret EXCEPT !["SoftSetArg"] = Returned(TRUE, "")]
            /\ forced_settings' = Put(forced_settings, SettingName(strArg),
                                      StrV(strValue))
    /\ UNCHANGED <<command_line_options, rw_settings, ro_config, m_network,
                   m_command, m_accept_any_command, m_config_sections, files,
                   threadVars>>

SelectConfigNetwork(network) ==
    /\ m_network' = network
    /\ UNCHANGED <<forced_settings, command_line_options, rw_settings,
                   ro_config, m_command, m_accept_any_command,
                   m_config_sections, files, threadVars, ret>>

\* the file names of the settings file: a path is the list of its pieces
BITCOIN_SETTINGS_FILENAME == <<"settings.json">>

S_settings == <<"s","e","t","t","i","n","g","s">>

\* GetSettingsPath: whether the settings file is enabled, and its path
GetSettingsPath(temp, backup) ==
    [enabled |-> ~IsArgNegated(<<"-">> \o S_settings),
     filepath |-> BITCOIN_SETTINGS_FILENAME
                  \o (IF backup THEN <<".bak">> ELSE <<>>)
                  \o (IF temp THEN <<".tmp">> ELSE <<>>)]

ReadSettingsFile ==
    LET path == GetSettingsPath(FALSE, FALSE)
        r == ReadBack(files[path.filepath])
    IN  /\ path.enabled
        /\ rw_settings' = r.values
        /\ ret' = [ret EXCEPT !["ReadSettingsFile"] =
                       Returned(r.ok, IF r.ok THEN "" ELSE r.errors[1])]
        /\ UNCHANGED <<forced_settings, command_line_options, ro_config,
                       m_network, m_command, m_accept_any_command,
                       m_config_sections, files, threadVars>>

\* RenameOver: the destination atomically becomes the source file
RenameOver(fs, src, dest) == [fs EXCEPT ![dest] = fs[src], ![src] = NoFile]

\* the locals of a thread that is in no call of ReadConfigFiles
LdIdle ==
    [pc |-> "idle", ignore_invalid_keys |-> FALSE, filepath |-> <<>>,
     stream |-> <<>>, options |-> <<>>, i |-> 0, conf_file_names |-> <<>>,
     n |-> 0, chain_id |-> <<>>, chain_includes |-> 0,
     default_includes |-> 0, warnings |-> <<>>]

\* the locals of a thread that is in no call of GetSetting
RdIdle == [pc |-> "idle", value |-> NullV, list |-> <<>>]

\* the locals of a thread that is in no call of WriteSettingsFile
WrIdle ==
    [pc |-> "idle", path |-> <<>>, path_tmp |-> <<>>, text |-> <<>>,
     failed |-> FALSE]

\* the threads that call SoftSetArg at the same time
SoftThreads == {"soft1", "soft2"}

\* the locals of a thread that is in no call of SoftSetArg
SsIdle ==
    [t \in SoftThreads |-> [pc |-> "idle", value |-> <<>>, result |-> FALSE]]

\* MapPortProto: a set of protocols, NONE the empty one
NONE == {}
UPNP == {"UPNP"}

\* the thread objects that may exist at one time
MaxMapPortThreads == 2

MapPortThreads == 1..MaxMapPortThreads

\* no thread: nothing runs ThreadMapPort
NoThread == [pc |-> "none", ok |-> FALSE, ret |-> FALSE]

\* the globals of mapport.cpp after static initialisation, with no thread and
\* the controlling thread in no call; g_mapport_thread is the thread the
\* handle owns, 0 when it is not joinable
MpIdle ==
    [g_mapport_interrupt |-> FALSE,
     g_mapport_thread |-> 0,
     g_mapport_current_proto |-> NONE,
     g_mapport_target_proto |-> NONE,
     thread |-> [t \in MapPortThreads |-> NoThread],
     pc |-> "idle",
     in_start |-> FALSE]

storeVars ==
    <<forced_settings, command_line_options, rw_settings, ro_config,
      m_network, m_command, m_accept_any_command, m_config_sections>>

\* WriteSettingsFile up to LOCK(cs_args), and WriteSettings building out
WriteSettingsFileBegin(backup) ==
    LET path == GetSettingsPath(FALSE, backup)
        path_tmp == GetSettingsPath(TRUE, backup)
    IN  /\ wr.pc = "idle"
        /\ path.enabled /\ path_tmp.enabled
        /\ cs_args = ""
        /\ cs_args' = "wr"
        /\ wr' = [pc |-> "open", path |-> path.filepath,
                  path_tmp |-> path_tmp.filepath,
                  text |-> WriteSettingsText(rw_settings), failed |-> FALSE]
        /\ UNCHANGED <<storeVars, files, ld, rd, ss, mp, ret>>

\* WriteSettings: file.open(path) truncates the temporary file, or fails and
\* false is returned
WriteSettingsOpen ==
    /\ wr.pc = "open"
    /\ \/ /\ files' = [files EXCEPT ![wr.path_tmp] = File(<<>>)]
          /\ wr' = [wr EXCEPT !.pc = "write"]
          /\ UNCHANGED <<cs_args, ret>>
       \/ /\ ret' = [ret EXCEPT !["WriteSettingsFile"] =
                         Returned(FALSE, "Unable to open settings file")]
          /\ wr' = WrIdle
          /\ cs_args' = ""
          /\ UNCHANGED files
    /\ UNCHANGED <<storeVars, ld, rd, ss, mp>>

MaxPartial == 1

Min(a, b) == IF a < b THEN a ELSE b

\* how much of a text may reach the file: all of it, or, when the stream
\* fails, a proper part of at most MaxPartial tokens
Written(text) == {Len(text)} \cup 0..Min(Len(text) - 1, MaxPartial)

\* WriteSettings: file << out.write(4, 1) << std::endl; file.close(); return
\* true.  The stream takes the whole text, or fails after part of it; its
\* state is not looked at afterwards
WriteSettingsStream ==
    /\ wr.pc = "write"
    /\ \E n \in Written(wr.text) :
           /\ files' = [files EXCEPT ![wr.path_tmp] =
                            File(SubSeq(wr.text, 1, n))]
           /\ wr' = [wr EXCEPT !.pc = "rename", !.failed = n < Len(wr.text)]
    /\ UNCHANGED <<storeVars, cs_args, ld, rd, ss, mp, ret>>

\* WriteSettingsFile: RenameOver(path_tmp, path), which may fail, and return
WriteSettingsRename ==
    /\ wr.pc = "rename"
    /\ \/ /\ files' = RenameOver(files, wr.path_tmp, wr.path)
          /\ ret' = [ret EXCEPT !["WriteSettingsFile"] = Returned(TRUE, "")]
       \/ /\ ret' = [ret EXCEPT !["WriteSettingsFile"] =
                         Returned(FALSE, "Failed renaming settings file")]
          /\ UNCHANGED files
    /\ wr' = WrIdle
    /\ cs_args' = ""
    /\ UNCHANGED <<storeVars, ld, rd, ss, mp>>

----------------------------------------------------------------------------
(* Inputs *)

MaxArgs == 2
MaxLines == 2

\* the sequences over S of length at most n
SeqsUpTo(S, n) == UNION {[1..k -> S] : k \in 0..n}

ProgramName == <<"b","i","t","c","o","i","n","d">>

\* the argument vectors with at most n arguments from tokens
Argvs(tokens, n) == {<<ProgramName>> \o args : args \in SeqsUpTo(tokens, n)}

Opt(name) == <<"-">> \o name
OptVal(name, value) == <<"-">> \o name \o <<"=">> \o value
Negate(name) == <<"-", "n", "o">> \o name
Line(name, value) == name \o <<"=">> \o value
Dotted(section, name) == section \o <<".">> \o name

FooArgs == {OptVal(S_foo, <<"a">>), OptVal(S_foo, <<"b">>), Negate(S_foo)}

FooLines ==
    {Line(S_foo, <<"a">>), Line(S_foo, <<"b">>),
     Line(<<"n","o">> \o S_foo, <<"1">>),
     Line(Dotted(S_test, S_foo), <<"a">>),
     Line(Dotted(S_test, S_foo), <<"b">>),
     Line(Dotted(S_test, <<"n","o">> \o S_foo), <<"1">>)}

BITCOIN_CONF_FILENAME == <<"bitcoin.conf">>

SettingsPaths ==
    {GetSettingsPath(t, b).filepath : t \in BOOLEAN, b \in BOOLEAN}

\* a settings file holding the one entry foo: value
FooFile(value) == File(WriteObject(<<S_foo>>, <<value>>))

FooFiles ==
    {NoFile, FooFile(StrV(<<"r">>)), FooFile(BoolV(FALSE)), FooFile(NullV),
     FooFile(ArrV(<<StrV(<<"r">>), StrV(<<"s">>)>>))}

\* no chain name asked for yet
NoChain == [called |-> FALSE, err |-> FALSE, name |-> <<>>]

InitStore ==
    /\ forced_settings = EmptyMap
    /\ command_line_options = EmptyMap
    /\ rw_settings = EmptyMap
    /\ ro_config = EmptyMap
    /\ m_network = <<>>
    /\ m_command = <<>>
    /\ m_accept_any_command = TRUE
    /\ m_config_sections = <<>>
    /\ cs_args = ""
    /\ ld = LdIdle
    /\ rd = RdIdle
    /\ wr = WrIdle
    /\ ss = SsIdle
    /\ mp = MpIdle
    /\ ret = [op \in Operations |-> NoReturn]

\* nothing recorded yet
HistIdle ==
    [argv |-> <<>>, chain |-> NoChain, prev |-> NoFile, new |-> <<>>,
     failed |-> FALSE, seen |-> <<>>, released |-> {}, stream |-> <<>>,
     output |-> [str |-> SettingToString(NullV), int |-> Unset(Zero),
                 bool |-> Unset(FALSE)],
     key |-> <<>>, errors |-> <<>>,
     merge |-> [called |-> "", section |-> <<>>,
                ignore_default_section_config |-> FALSE,
                ignore_nonpersistent |-> FALSE, get_chain_name |-> FALSE,
                value |-> NullV, list |-> <<>>, only |-> FALSE],
     span |-> [values |-> <<>>, viewed |-> FALSE, negated |-> 0,
               live |-> <<>>, empty |-> FALSE, last_negated |-> FALSE],
     io |-> [is_open |-> TRUE, got |-> 0, fail |-> FALSE],
     number |-> [str |-> <<>>, parsed |-> [called |-> FALSE, ok |-> FALSE,
                                           n |-> Zero],
                 atoi |-> [called |-> FALSE, n |-> Zero]],
     keyinfo |-> [name |-> <<>>, section |-> <<>>, negated |-> FALSE],
     mapport |-> [last |-> "", only_start |-> TRUE, shutdown |-> FALSE,
                  joined |-> FALSE]]

InitIdle == InitStore /\ hist = HistIdle

----------------------------------------------------------------------------
(* Spec: the startup sequence.  The command line is parsed, the config     *)
(* file is read, the settings file is loaded, and then parameter           *)
(* interaction may force a value.                                          *)

Init ==
    /\ InitIdle
    /\ pc = "start"
    /\ \E f \in FooFiles :
           files = [p \in SettingsPaths |->
                       IF p = BITCOIN_SETTINGS_FILENAME THEN f ELSE NoFile]

StartParse ==
    /\ pc = "start"
    /\ \E argv \in Argvs(FooArgs, MaxArgs) : ParseParameters(argv)
    /\ pc' = "parsed"
    /\ UNCHANGED hist

StartConfig ==
    /\ pc = "parsed"
    /\ \E stream \in SeqsUpTo(FooLines, MaxLines) :
           ReadConfigStream(stream, BITCOIN_CONF_FILENAME, FALSE)
    /\ pc' = "configured"
    /\ UNCHANGED hist

StartSettings ==
    /\ pc = "configured"
    /\ ReadSettingsFile
    /\ pc' = "loaded"
    /\ UNCHANGED hist

StartForce ==
    /\ pc = "loaded"
    /\ ForceSetArg(Opt(S_foo), <<"f">>)
    /\ pc' = "running"
    /\ UNCHANGED hist

Next == StartParse \/ StartConfig \/ StartSettings \/ StartForce

Spec == Init /\ [][Next]_vars

----------------------------------------------------------------------------
(* Properties of the precedence merger, over the store of Spec *)

Sections == {<<>>, S_test}

\* whether a source holds the name, read off the store
Holds(settings, section, name, source) ==
    CASE source = FORCED -> name \in DOMAIN settings.forced_settings
      [] source = COMMAND_LINE -> name \in DOMAIN settings.command_line_options
      [] source = RW_SETTINGS -> name \in DOMAIN settings.rw_settings
      [] source = CONFIG_FILE_NETWORK_SECTION ->
           /\ section # <<>>
           /\ section \in DOMAIN settings.ro_config
           /\ name \in DOMAIN settings.ro_config[section]
      [] source = CONFIG_FILE_DEFAULT_SECTION ->
           /\ <<>> \in DOMAIN settings.ro_config
           /\ name \in DOMAIN settings.ro_config[<<>>]

\* the store with every source but one emptied
OnlySource(settings, section, source) ==
    [forced_settings |->
         IF source = FORCED THEN settings.forced_settings ELSE EmptyMap,
     command_line_options |->
         IF source = COMMAND_LINE THEN settings.command_line_options
         ELSE EmptyMap,
     rw_settings |->
         IF source = RW_SETTINGS THEN settings.rw_settings ELSE EmptyMap,
     ro_config |->
         IF source = CONFIG_FILE_NETWORK_SECTION
         THEN [x \in DOMAIN settings.ro_config \cap {section} |->
                  settings.ro_config[x]]
         ELSE IF source = CONFIG_FILE_DEFAULT_SECTION
         THEN [x \in DOMAIN settings.ro_config \cap {<<>>} |->
                  settings.ro_config[x]]
         ELSE EmptyMap]

\* the sources in the order forced, command line, read-write settings,
\* config network section, config default section
Precedence(source) ==
    CASE source = FORCED -> 1
      [] source = COMMAND_LINE -> 2
      [] source = RW_SETTINGS -> 3
      [] source = CONFIG_FILE_NETWORK_SECTION -> 4
      [] source = CONFIG_FILE_DEFAULT_SECTION -> 5

Sources ==
    {FORCED, COMMAND_LINE, RW_SETTINGS, CONFIG_FILE_NETWORK_SECTION,
     CONFIG_FILE_DEFAULT_SECTION}

\* the first source, in that order, that holds the name
IsFirstHolder(settings, section, name, source) ==
    /\ Holds(settings, section, name, source)
    /\ \A other \in Sources :
           Precedence(other) < Precedence(source)
               => ~Holds(settings, section, name, other)

\* C1: with the three flags false, GetSetting takes its result from the first
\* source, in the order forced, command line, read-write settings, config
\* network section, config default section, that holds the name: it is the
\* result the store gives with every other source emptied, so no later source
\* changes it; a name no source holds resolves to null
C1_FirstSourceWins ==
    \A section \in Sections :
        LET result == GetSetting(m_settings, section, S_foo,
                                 FALSE, FALSE, FALSE)
        IN  /\ \A source \in Sources :
                   IsFirstHolder(m_settings, section, S_foo, source)
                   => result = GetSetting(
                                   OnlySource(m_settings, section, source),
                                   section, S_foo, FALSE, FALSE, FALSE)
            /\ (\A source \in Sources :
                    ~Holds(m_settings, section, S_foo, source))
               => isNull(result)

\* the name is set in the network section and in the default section to
\* different values, in no higher source, and resolves to the network value
C1_Witness ==
    /\ ~Holds(m_settings, S_test, S_foo, FORCED)
    /\ ~Holds(m_settings, S_test, S_foo, COMMAND_LINE)
    /\ ~Holds(m_settings, S_test, S_foo, RW_SETTINGS)
    /\ Holds(m_settings, S_test, S_foo, CONFIG_FILE_NETWORK_SECTION)
    /\ Holds(m_settings, S_test, S_foo, CONFIG_FILE_DEFAULT_SECTION)
    /\ ro_config[S_test][S_foo] = <<StrV(<<"a">>)>>
    /\ ro_config[<<>>][S_foo] = <<StrV(<<"b">>)>>
    /\ m_config_sections[1].m_line = 2
    /\ GetSetting(m_settings, S_test, S_foo, FALSE, FALSE, FALSE)
           = StrV(<<"a">>)

NoFalse(values) == \A i \in 1..Len(values) : ~isFalse(values[i])

\* C2: when the winning source is a config-file section whose values for the
\* name are all non-negated, GetSetting with get_chain_name false returns the
\* first of them; when it is the command line, it returns the last
C2_ConfigFirstCommandLineLast ==
    \A section \in Sections :
        LET result == GetSetting(m_settings, section, S_foo,
                                 FALSE, FALSE, FALSE)
        IN  /\ (/\ IsFirstHolder(m_settings, section, S_foo,
                                 CONFIG_FILE_NETWORK_SECTION)
                /\ NoFalse(ro_config[section][S_foo]))
               => result = ro_config[section][S_foo][1]
            /\ (/\ IsFirstHolder(m_settings, section, S_foo,
                                 CONFIG_FILE_DEFAULT_SECTION)
                /\ NoFalse(ro_config[<<>>][S_foo]))
               => result = ro_config[<<>>][S_foo][1]
            /\ (/\ IsFirstHolder(m_settings, section, S_foo, COMMAND_LINE)
                /\ NoFalse(command_line_options[S_foo]))
               => result = command_line_options[S_foo][
                               Len(command_line_options[S_foo])]

\* the network section and the command line both hold [a, b]: the command line
\* wins with b, and the config file alone gives a
C2_Witness ==
    /\ Holds(m_settings, S_test, S_foo, CONFIG_FILE_NETWORK_SECTION)
    /\ ro_config[S_test][S_foo] = <<StrV(<<"a">>), StrV(<<"b">>)>>
    /\ Holds(m_settings, S_test, S_foo, COMMAND_LINE)
    /\ command_line_options[S_foo] = <<StrV(<<"a">>), StrV(<<"b">>)>>
    /\ ~Holds(m_settings, S_test, S_foo, FORCED)
    /\ GetSetting(m_settings, S_test, S_foo, FALSE, FALSE, FALSE)
           = StrV(<<"b">>)
    /\ GetSetting(OnlySource(m_settings, S_test,
                             CONFIG_FILE_NETWORK_SECTION),
                  S_test, S_foo, FALSE, FALSE, FALSE) = StrV(<<"a">>)

\* only the command line and the config default section hold the name
OnlyCommandLineAndDefault ==
    /\ ~Holds(m_settings, <<>>, S_foo, FORCED)
    /\ Holds(m_settings, <<>>, S_foo, COMMAND_LINE)
    /\ ~Holds(m_settings, <<>>, S_foo, RW_SETTINGS)
    /\ Holds(m_settings, <<>>, S_foo, CONFIG_FILE_DEFAULT_SECTION)

C4_WitnessRevived ==
    /\ OnlyCommandLineAndDefault
    /\ command_line_options[S_foo] = <<BoolV(FALSE), StrV(<<"b">>)>>
    /\ ro_config[<<>>][S_foo] = <<StrV(<<"a">>)>>
    /\ GetSettingsList(m_settings, <<>>, S_foo, FALSE)
           = <<StrV(<<"b">>), StrV(<<"a">>)>>

----------------------------------------------------------------------------
(* SpecCmd: one command line of up to MaxNegArgs arguments is parsed *)

MaxNegArgs == 4

NegArgs ==
    {OptVal(S_foo, <<"1">>), OptVal(S_foo, <<"2">>), Negate(S_foo),
     OptVal(S_foo, <<"3">>)}

NoFiles == [p \in SettingsPaths |-> NoFile]

InitCmd == InitIdle /\ pc = "start" /\ files = NoFiles

CmdParse ==
    /\ pc = "start"
    /\ \E argv \in Argvs(NegArgs, MaxNegArgs) :
           ParseParameters(argv) /\ hist' = [hist EXCEPT !.argv = argv]
    /\ pc' = "parsed"

NextCmd == CmdParse

SpecCmd == InitCmd /\ [][NextCmd]_vars

\* the arguments of the parsed command line, without the program name
Args == Tail(hist.argv)

\* the last position of a negation among the arguments, 0 when there is none
LastNegation ==
    LET hits == {i \in 1..Len(Args) : Args[i] = Negate(S_foo)}
    IN IF hits = {} THEN 0 ELSE CHOOSE i \in hits : \A j \in hits : i >= j

\* the value an argument -foo=value carries
ArgValue(arg) == StrV(Tail1(arg, Len(OptVal(S_foo, <<>>)) + 1))

\* C3: a negation on the command line cancels every earlier command-line value
\* of the name: -foo=1 -foo=2 -nofoo resolves foo to Bool(false), and with
\* -foo=3 appended foo resolves to 3; in general foo resolves to Bool(false)
\* when the last argument is the negation and to the value of the last argument
\* otherwise, which comes after every negation
C3_NegationCancelsEarlier ==
    pc = "parsed" =>
    LET result == ArgsGetSetting(Opt(S_foo))
    IN  /\ Args = <<OptVal(S_foo, <<"1">>), OptVal(S_foo, <<"2">>),
                    Negate(S_foo)>>
           => result = BoolV(FALSE)
        /\ Args = <<OptVal(S_foo, <<"1">>), OptVal(S_foo, <<"2">>),
                    Negate(S_foo), OptVal(S_foo, <<"3">>)>>
           => result = StrV(<<"3">>)
        /\ (Args # <<>> /\ LastNegation = Len(Args)) => result = BoolV(FALSE)
        /\ (Args # <<>> /\ LastNegation < Len(Args))
           => result = ArgValue(Args[Len(Args)])
        /\ Args = <<>> => isNull(result)

\* -foo=1 -foo=2 -nofoo -foo=3 was parsed and foo resolves to 3
C3_Witness ==
    /\ pc = "parsed"
    /\ ret["ParseParameters"].ok
    /\ Args = <<OptVal(S_foo, <<"1">>), OptVal(S_foo, <<"2">>),
                Negate(S_foo), OptVal(S_foo, <<"3">>)>>
    /\ command_line_options[S_foo]
           = <<StrV(<<"1">>), StrV(<<"2">>), BoolV(FALSE), StrV(<<"3">>)>>
    /\ ArgsGetSetting(Opt(S_foo)) = StrV(<<"3">>)

----------------------------------------------------------------------------
(* SpecChain: the command line is parsed, the config file is read, and the *)
(* chain name is resolved and selected as the config network.              *)

ChainArgs ==
    {Opt(S_regtest), Negate(S_regtest), OptVal(S_regtest, <<"0">>),
     Opt(S_signet), Negate(S_signet), Opt(S_testnet),
     OptVal(S_chain, <<"x">>), Negate(S_chain)}

ChainLines ==
    {Line(S_regtest, <<"1">>), Line(S_regtest, <<"0">>),
     Line(<<"n","o">> \o S_regtest, <<"1">>), Line(S_signet, <<"1">>),
     Line(S_testnet, <<"1">>), Line(S_chain, <<"y">>)}

InitChain == InitIdle /\ pc = "start" /\ files = NoFiles

ChainParse ==
    /\ pc = "start"
    /\ \E argv \in Argvs(ChainArgs, MaxArgs) :
           ParseParameters(argv) /\ hist' = [hist EXCEPT !.argv = argv]
    /\ pc' = "parsed"

ChainConfig ==
    /\ pc = "parsed"
    /\ \E stream \in SeqsUpTo(ChainLines, MaxLines) :
           ReadConfigStream(stream, BITCOIN_CONF_FILENAME, FALSE)
    /\ pc' = "configured"
    /\ UNCHANGED hist

\* the caller selecting the network GetChainName returns, unless it throws
ChainSelect ==
    /\ pc = "configured"
    /\ LET chain == GetChainName
       IN  /\ hist' = [hist EXCEPT !.chain = [called |-> TRUE,
                                              err |-> chain.err,
                                              name |-> chain.name]]
           /\ IF chain.err
              THEN UNCHANGED <<forced_settings, command_line_options,
                               rw_settings, ro_config, m_network, m_command,
                               m_accept_any_command, m_config_sections,
                               files, threadVars, ret>>
              ELSE SelectConfigNetwork(chain.name)
    /\ pc' = "selected"

NextChain == ChainParse \/ ChainConfig \/ ChainSelect

SpecChain == InitChain /\ [][NextChain]_vars

\* what the command line and then the config default section hold for a name
NetSources(name) ==
    (IF name \in DOMAIN command_line_options
     THEN <<command_line_options[name]>> ELSE <<>>)
    \o (IF <<>> \in DOMAIN ro_config /\ name \in DOMAIN ro_config[<<>>]
        THEN <<ro_config[<<>>][name]>> ELSE <<>>)

\* the values that stand for true: an option without a value, =1, and a
\* doubly negated option
Affirmative == {StrV(<<>>), StrV(<<"1">>), BoolV(TRUE)}

EndsNegated(values) == isFalse(values[Len(values)])

\* a network option resolves to true when the first of its sources that does
\* not end in a negation ends in an affirmative value
ResolvesTrue(name) ==
    LET live == SelectSeq(NetSources(name), LAMBDA v : ~EndsNegated(v))
    IN live # <<>> /\ live[1][Len(live[1])] \in Affirmative

ChainIsSet == NetSources(S_chain) # <<>>

\* the string -chain resolves to: the last command-line value, else the first
\* config value after the last negation, "0" for a source ending negated
ChainValue ==
    LET values == NetSources(S_chain)[1]
    IN  IF EndsNegated(values) THEN <<"0">>
        ELSE IF S_chain \in DOMAIN command_line_options
             THEN values[Len(values)].s
        ELSE values[negated(values) + 1].s

NumberSet ==
    BoolToInt(ResolvesTrue(S_regtest)) + BoolToInt(ResolvesTrue(S_signet))
    + BoolToInt(ResolvesTrue(S_testnet)) + BoolToInt(ChainIsSet)

\* C5: GetChainName throws when two or more of -regtest, -signet, -testnet
\* (resolving to true) and -chain are set; with exactly one set it returns
\* regtest, signet, test or the value of -chain respectively; with none set it
\* returns main
C5_ChainNameSelection ==
    (pc = "selected" /\ ret["ParseParameters"].ok
     /\ ret["ReadConfigStream"].ok)
    => /\ hist.chain.called
       /\ NumberSet >= 2 => hist.chain.err
       /\ NumberSet = 1
          => /\ ~hist.chain.err
             /\ hist.chain.name
                = IF ResolvesTrue(S_regtest) THEN S_regtest
                  ELSE IF ResolvesTrue(S_signet) THEN S_signet
                  ELSE IF ResolvesTrue(S_testnet) THEN S_test
                  ELSE ChainValue
             /\ m_network = hist.chain.name
       /\ NumberSet = 0 => ~hist.chain.err /\ hist.chain.name = S_main

\* -regtest and -chain=x on the command line: GetChainName has thrown
C5_Witness ==
    /\ pc = "selected"
    /\ Args = <<Opt(S_regtest), OptVal(S_chain, <<"x">>)>>
    /\ ret["ParseParameters"].ok
    /\ NumberSet = 2
    /\ hist.chain.called
    /\ hist.chain.err

\* exactly -chain=x is set and the chain selected is x
C5_WitnessChain ==
    /\ pc = "selected"
    /\ NumberSet = 1
    /\ ChainIsSet
    /\ hist.chain = [called |-> TRUE, err |-> FALSE, name |-> <<"x">>]

Networks == {S_regtest, S_signet, S_testnet}

\* C6: when the chain name is resolved, a command line whose last occurrence
\* of -regtest, -signet or -testnet is a negation is skipped, so the option
\* resolves to what the config default section gives: with only -noregtest on
\* the command line and only regtest=1 in the config file, GetChainName
\* returns regtest
C6_NegatedNetworkSkipped ==
    (pc = "selected" /\ ret["ParseParameters"].ok
     /\ ret["ReadConfigStream"].ok)
    => /\ \A name \in Networks :
              (/\ name \in DOMAIN command_line_options
               /\ EndsNegated(command_line_options[name]))
              => get_net(<<"-">> \o name)
                 = (/\ <<>> \in DOMAIN ro_config
                    /\ name \in DOMAIN ro_config[<<>>]
                    /\ ro_config[<<>>][name][Len(ro_config[<<>>][name])]
                           \in Affirmative)
       /\ (/\ Args = <<Negate(S_regtest)>>
           /\ ro_config = Put(EmptyMap, <<>>,
                              Put(EmptyMap, S_regtest, <<StrV(<<"1">>)>>)))
          => hist.chain = [called |-> TRUE, err |-> FALSE, name |-> S_regtest]

\* -noregtest on the command line, regtest=1 in the config default section,
\* and regtest has been selected
C6_Witness ==
    /\ pc = "selected"
    /\ Args = <<Negate(S_regtest)>>
    /\ command_line_options[S_regtest] = <<BoolV(FALSE)>>
    /\ ro_config = Put(EmptyMap, <<>>,
                       Put(EmptyMap, S_regtest, <<StrV(<<"1">>)>>))
    /\ hist.chain.called
    /\ ~hist.chain.err
    /\ m_network = S_regtest

----------------------------------------------------------------------------
(* SpecFile: the operations that touch the settings in any order, with     *)
(* WriteSettingsFile taken step by step.  A write to the temporary file    *)
(* may fail part-way, the rename may fail, and the process may stop at any *)
(* step of a write.                                                        *)

MaxConfValues == 1

\* the values each non-persistent source is given: one letter per source
ForcedValue == <<"f">>
SoftValue == <<"u">>
CommandLineValue == <<"c">>
ConfigValue == <<"k">>

NonPersistent == {ForcedValue, SoftValue, CommandLineValue, ConfigValue}

\* the settings files the run may start from: none, well-formed objects with
\* every kind of value, unsorted keys, a duplicate key and a non-object
TargetFiles ==
    {NoFile,
     File(WriteObject(<<S_chain, S_foo>>,
                      <<ArrV(<<StrV(<<"r">>), BoolV(TRUE)>>), NullV>>)),
     File(WriteObject(<<S_foo, S_chain>>, <<BoolV(FALSE), NumV(<<"7">>)>>)),
     File(WriteObject(<<S_foo, S_foo>>, <<ArrV(<<>>), StrV(<<"t">>)>>)),
     File(<<Tok("str", <<"r">>)>>)}

InitFile ==
    /\ InitStore
    /\ pc = "running"
    /\ \E f \in TargetFiles :
           files = [p \in SettingsPaths |->
                       IF p = BITCOIN_SETTINGS_FILENAME THEN f ELSE NoFile]
    /\ hist = [HistIdle EXCEPT !.prev = files[BITCOIN_SETTINGS_FILENAME]]

Idle == pc = "running" /\ wr.pc = "idle"

FileForce == Idle /\ ForceSetArg(Opt(S_foo), ForcedValue) /\ UNCHANGED <<pc, hist>>

FileSoft == Idle /\ SoftSetArg(Opt(S_foo), SoftValue) /\ UNCHANGED <<pc, hist>>

FileParse ==
    /\ Idle
    /\ \E argv \in Argvs({OptVal(S_foo, CommandLineValue)}, 1) :
           ParseParameters(argv)
    /\ UNCHANGED <<pc, hist>>

FileConfig ==
    /\ Idle
    /\ FindKey(ro_config, <<>>)
       => Len(ro_config[<<>>][S_foo]) < MaxConfValues
    /\ ReadConfigStream(<<Line(S_foo, ConfigValue)>>, BITCOIN_CONF_FILENAME,
                        FALSE)
    /\ UNCHANGED <<pc, hist>>

FileLoad == Idle /\ ReadSettingsFile /\ UNCHANGED <<pc, hist>>

\* a call of WriteSettingsFile for the settings file itself (backup false)
\* starts: the settings file as it is and the text of rw_settings are recorded
FileWriteBegin ==
    /\ pc = "running"
    /\ WriteSettingsFileBegin(FALSE)
    /\ hist' = [hist EXCEPT !.prev = files[BITCOIN_SETTINGS_FILENAME],
                            !.new = WriteSettingsText(rw_settings),
                            !.failed = FALSE]
    /\ UNCHANGED pc

FileWriteOpen == pc = "running" /\ WriteSettingsOpen /\ UNCHANGED <<pc, hist>>

FileWriteStream ==
    /\ pc = "running"
    /\ WriteSettingsStream
    /\ hist' = [hist EXCEPT !.failed = wr'.failed]
    /\ UNCHANGED pc

FileWriteRename ==
    pc = "running" /\ WriteSettingsRename /\ UNCHANGED <<pc, hist>>

\* the process stops at a step of WriteSettingsFile; the files stay
Crash ==
    /\ pc = "running"
    /\ wr.pc # "idle"
    /\ pc' = "crashed"
    /\ UNCHANGED <<storeVars, files, threadVars, ret, hist>>

NextFile ==
    \/ FileForce \/ FileSoft \/ FileParse \/ FileConfig \/ FileLoad
    \/ FileWriteBegin \/ FileWriteOpen \/ FileWriteStream \/ FileWriteRename
    \/ Crash

SpecFile == InitFile /\ [][NextFile]_vars

\* the settings file
Target == files[BITCOIN_SETTINGS_FILENAME]

\* C8: at every step of WriteSettingsFile, and after a failure or a stop at
\* any step, the settings file holds what it held when the call began or the
\* complete text of rw_settings
C8_TargetCompleteAtEveryStep ==
    Target = hist.prev \/ Target = File(hist.new)

\* a write that failed part-way was renamed over the settings file, which now
\* holds a text that does not parse, and WriteSettingsFile returned true
C8_Witness ==
    /\ wr.pc = "idle"
    /\ hist.failed
    /\ ret["WriteSettingsFile"] = Returned(TRUE, "")
    /\ Target.exists
    /\ Target # hist.prev
    /\ Target # File(hist.new)
    /\ ReadBack(hist.prev).ok
    /\ ~ReadBack(Target).ok

\* C8 without write failures: when the stream took the whole text, the
\* settings file holds what it held when the call began or the complete text
C8_CompleteWhenStreamGood ==
    ~hist.failed => C8_TargetCompleteAtEveryStep

\* C9: once WriteSettings has returned true for the map rw_settings,
\* ReadSettings of the file it wrote succeeds with no error and gives a map
\* equal to rw_settings
C9_RoundTrip ==
    wr.pc = "rename"
    => ReadBack(files[wr.path_tmp])
       = [ok |-> TRUE, values |-> rw_settings, errors |-> <<>>]

\* C9 when the stream took the whole text
C9_RoundTripWhenWritten ==
    (wr.pc = "rename" /\ ~wr.failed)
    => ReadBack(files[wr.path_tmp])
       = [ok |-> TRUE, values |-> rw_settings, errors |-> <<>>]

\* a map of two entries, an array among them, was written whole and read back
C9_Witness ==
    /\ wr.pc = "rename"
    /\ ~wr.failed
    /\ DOMAIN rw_settings = {S_foo, S_chain}
    /\ isArray(rw_settings[S_chain])
    /\ ReadBack(files[wr.path_tmp]).values = rw_settings

\* WriteSettings returned true after a failed write and the file does not
\* read back
C9_WitnessFailed ==
    /\ wr.pc = "rename"
    /\ wr.failed
    /\ rw_settings # EmptyMap
    /\ ~ReadBack(files[wr.path_tmp]).ok

RECURSIVE Strings(_)
\* the strings a value holds
Strings(v) ==
    IF isArray(v) THEN UNION {Strings(v.a[i]) : i \in 1..Len(v.a)}
    ELSE IF isStr(v) THEN {v.s} ELSE {}

IsPrefix(x, y) == Len(x) <= Len(y) /\ x = SubSeq(y, 1, Len(x))

\* C10: no value of the forced, command-line or config-file source is in
\* rw_settings or in any settings file, and what WriteSettingsFile has written
\* to the temporary file is the text of the rw_settings entries, whole when
\* the stream did not fail and cut short otherwise
C10_OnlyRwSettingsPersisted ==
    /\ \A name \in DOMAIN rw_settings :
           Strings(rw_settings[name]) \cap NonPersistent = {}
    /\ \A p \in SettingsPaths :
           \A i \in 1..Len(files[p].data) :
               files[p].data[i].s \notin NonPersistent
    /\ wr.pc = "rename"
       => /\ IsPrefix(files[wr.path_tmp].data, WriteSettingsText(rw_settings))
          /\ ~wr.failed
             => files[wr.path_tmp] = File(WriteSettingsText(rw_settings))

\* all of the forced, command-line and config-file sources hold a value and a
\* write of a loaded rw_settings has replaced the settings file
C10_Witness ==
    /\ FindKey(forced_settings, S_foo)
    /\ FindKey(command_line_options, S_foo)
    /\ FindKey(ro_config, <<>>)
    /\ rw_settings # EmptyMap
    /\ wr.pc = "idle"
    /\ ~hist.failed
    /\ ret["WriteSettingsFile"] = Returned(TRUE, "")
    /\ ret["ReadSettingsFile"].called
    /\ Target = File(WriteSettingsText(rw_settings))
    /\ Target # hist.prev

----------------------------------------------------------------------------
(* ReadConfigFiles step by step, and a reader in another thread.  A step   *)
(* is a stretch of code that holds cs_args throughout or that touches the  *)
(* store only while holding it.                                            *)

\* LOCK(cs_args) never waiting for the owner
LockNoWait(thread) == cs_args' = thread

\* LOCK(cs_args): the thread waits until the mutex is free and owns it
Lock(thread) == cs_args = "" /\ cs_args' = thread

\* the end of the scope of a LOCK(cs_args)
Unlock(thread) == cs_args' = ""

GetPathArg(arg, default_value) ==
    IF IsArgNegated(arg) THEN <<>>
    ELSE LET path_str == GetArg(arg, <<>>)
         IN IF path_str = <<>> THEN default_value ELSE path_str

untouchedByLoad ==
    <<forced_settings, command_line_options, rw_settings, m_network,
      m_command, m_accept_any_command, files, rd, wr, ss, mp>>

ReadConfigFilesFail(error) ==
    /\ ret' = [ret EXCEPT !["ReadConfigFiles"] = Returned(FALSE, error)]
    /\ ld' = [ld EXCEPT !.pc = "done"]

\* ReadConfigFiles: the block that clears ro_config and m_config_sections
ReadConfigFilesClear(ignore_invalid_keys) ==
    /\ ld.pc = "idle"
    /\ cs_args = ""
    /\ ro_config' = EmptyMap
    /\ m_config_sections' = <<>>
    /\ ld' = [LdIdle EXCEPT !.pc = "open",
                            !.ignore_invalid_keys = ignore_invalid_keys]
    /\ UNCHANGED <<untouchedByLoad, cs_args, ret>>

\* ReadConfigFiles: the config file is named and opened
ReadConfigFilesOpen ==
    LET conf_path == GetPathArg(<<"-">> \o S_conf, BITCOIN_CONF_FILENAME)
        good == conf_path \in DOMAIN files /\ files[conf_path].exists
    IN  /\ ld.pc = "open"
        /\ cs_args = ""
        /\ IF IsArgSet(<<"-">> \o S_conf) /\ ~good
           THEN ReadConfigFilesFail("specified config file could not be opened")
           ELSE IF good
           THEN /\ ld' = [ld EXCEPT !.pc = "stream", !.filepath = conf_path,
                                    !.stream = files[conf_path].data]
                /\ UNCHANGED ret
           ELSE /\ ld' = [ld EXCEPT !.pc = "finish"]
                /\ UNCHANGED ret
        /\ UNCHANGED <<untouchedByLoad, cs_args, ro_config, m_config_sections>>

\* ReadConfigStream: LOCK(cs_args) and GetConfigOptions
ReadConfigStreamLock ==
    LET parsed == GetConfigOptions(ld.stream, ld.filepath, m_config_sections)
    IN  /\ ld.pc = "stream"
        /\ Lock("ld")
        /\ m_config_sections' = parsed.sections
        /\ ld' = [ld EXCEPT !.pc = IF parsed.ok THEN "option" ELSE "failed",
                            !.options = parsed.options, !.i = 1]
        /\ ret' = IF parsed.ok THEN ret
                  ELSE [ret EXCEPT !["ReadConfigStream"] =
                            ReturnedAt(FALSE, parsed.error, parsed.line)]
        /\ UNCHANGED <<untouchedByLoad, ro_config>>

\* ReadConfigStream: one turn of the loop over the options
ReadConfigStreamOption ==
    LET read == ReadConfigOptionsFrom(<<ld.options[ld.i]>>, 1, ro_config,
                                      ld.ignore_invalid_keys)
    IN  /\ ld.pc = "option"
        /\ ld.i <= Len(ld.options)
        /\ ro_config' = read.config
        /\ ld' = [ld EXCEPT !.pc = IF read.ok THEN "option" ELSE "failed",
                            !.i = @ + 1]
        /\ ret' = IF read.ok THEN ret
                  ELSE [ret EXCEPT !["ReadConfigStream"] =
                            Returned(FALSE, read.error)]
        /\ UNCHANGED <<untouchedByLoad, cs_args, m_config_sections>>

\* ReadConfigStream returns and its lock ends; ReadConfigFiles returns false
\* when it failed and goes on otherwise
ReadConfigStreamReturn ==
    /\ \/ /\ ld.pc = "option"
          /\ ld.i > Len(ld.options)
          /\ ret' = [ret EXCEPT !["ReadConfigStream"] = Returned(TRUE, "")]
          /\ ld' = [ld EXCEPT !.pc = IF ld.n = 0 THEN "includes"
                                     ELSE "include"]
       \/ /\ ld.pc = "failed"
          /\ ReadConfigFilesFail(ret["ReadConfigStream"].error)
    /\ Unlock("ld")
    /\ UNCHANGED <<untouchedByLoad, ro_config, m_config_sections>>

\* the lambda add_includes: the names it appends and the count it returns
add_includes(network, skip) ==
    IF FindKey(ro_config, network)
       /\ FindKey(ro_config[network], S_includeconf)
    THEN LET values == ro_config[network][S_includeconf]
             from == Max(skip, negated(values))
         IN [names |-> [j \in 1..(Len(values) - from) |-> values[j + from].s],
             num_values |-> Len(values)]
    ELSE [names |-> <<>>, num_values |-> 0]

\* ReadConfigFiles: the command line is looked at for includeconf (the
\* assertion on its list stops the process when it fails), the chain name is
\* asked for and the included files are listed
ReadConfigFilesIncludes ==
    LET use_conf_file == ~FindKey(command_line_options, S_includeconf)
        chain == GetChainName
    IN  /\ ld.pc = "includes"
        /\ cs_args = ""
        /\ IF ~use_conf_file
              /\ ~last_negated(command_line_options[S_includeconf])
           THEN ld' = [ld EXCEPT !.pc = "aborted"] /\ UNCHANGED ret
           ELSE IF ~use_conf_file
           THEN ld' = [ld EXCEPT !.pc = "finish"] /\ UNCHANGED ret
           ELSE IF chain.err
           THEN ReadConfigFilesFail("Invalid combination of -regtest, -signet, -testnet and -chain")
           ELSE /\ ld' = [ld EXCEPT !.pc = "include",
                              !.chain_id = chain.name,
                              !.conf_file_names =
                                  add_includes(chain.name, 0).names
                                  \o add_includes(<<>>, 0).names,
                              !.chain_includes =
                                  add_includes(chain.name, 0).num_values,
                              !.default_includes =
                                  add_includes(<<>>, 0).num_values]
                /\ UNCHANGED ret
        /\ UNCHANGED <<untouchedByLoad, cs_args, ro_config, m_config_sections>>

\* the includeconf values that the included files added: the names the
\* warnings are printed for
RecursiveIncludes(chain_id_final) ==
    add_includes(ld.chain_id, ld.chain_includes).names
    \o add_includes(<<>>, ld.default_includes).names
    \o (IF chain_id_final # ld.chain_id
        THEN add_includes(chain_id_final, 0).names ELSE <<>>)

\* ReadConfigFiles reading the files that included files name as well
ReadConfigFilesIncludeNested ==
    LET conf_file_name == ld.conf_file_names[ld.n + 1]
        nested == RecursiveIncludes(GetChainName.name)
    IN  /\ ld.pc = "include"
        /\ ld.n = Len(ld.conf_file_names) => cs_args = ""
        /\ IF ld.n = Len(ld.conf_file_names)
           THEN IF GetChainName.err
                THEN ReadConfigFilesFail("Invalid combination of -regtest, -signet, -testnet and -chain")
                ELSE IF nested # <<>> /\ ld.warnings = <<>>
                THEN /\ ld' = [ld EXCEPT !.warnings = nested,
                                         !.conf_file_names = @ \o nested]
                     /\ UNCHANGED ret
                ELSE ld' = [ld EXCEPT !.pc = "finish"] /\ UNCHANGED ret
           ELSE IF conf_file_name \in DOMAIN files
                   /\ files[conf_file_name].exists
           THEN /\ ld' = [ld EXCEPT !.pc = "stream", !.n = @ + 1,
                                    !.filepath = conf_file_name,
                                    !.stream = files[conf_file_name].data]
                /\ UNCHANGED ret
           ELSE ReadConfigFilesFail("Failed to include configuration file")
        /\ UNCHANGED <<untouchedByLoad, cs_args, ro_config, m_config_sections>>

\* ReadConfigFiles: the next included file is opened; after the last one the
\* chain name is asked for again and the warnings about includeconf values
\* that came from included files are printed
ReadConfigFilesInclude ==
    LET conf_file_name == ld.conf_file_names[ld.n + 1]
    IN  /\ ld.pc = "include"
        /\ ld.n = Len(ld.conf_file_names) => cs_args = ""
        /\ IF ld.n = Len(ld.conf_file_names)
           THEN IF GetChainName.err
                THEN ReadConfigFilesFail("Invalid combination of -regtest, -signet, -testnet and -chain")
                ELSE /\ ld' = [ld EXCEPT
                                  !.pc = "finish",
                                  !.warnings =
                                      RecursiveIncludes(GetChainName.name)]
                     /\ UNCHANGED ret
           ELSE IF conf_file_name \in DOMAIN files
                   /\ files[conf_file_name].exists
           THEN /\ ld' = [ld EXCEPT !.pc = "stream", !.n = @ + 1,
                                    !.filepath = conf_file_name,
                                    !.stream = files[conf_file_name].data]
                /\ UNCHANGED ret
           ELSE ReadConfigFilesFail("Failed to include configuration file")
        /\ UNCHANGED <<untouchedByLoad, cs_args, ro_config, m_config_sections>>

\* ReadConfigFiles returns true
ReadConfigFilesReturn ==
    /\ ld.pc = "finish"
    /\ ret' = [ret EXCEPT !["ReadConfigFiles"] = Returned(TRUE, "")]
    /\ ld' = [ld EXCEPT !.pc = "done"]
    /\ UNCHANGED <<untouchedByLoad, cs_args, ro_config, m_config_sections>>

untouchedByRead ==
    <<storeVars, files, ld, wr, ss, mp, ret>>

\* ArgsManager::GetSetting and GetSettingsList in another thread: LOCK(cs_args)
GetSettingLock ==
    /\ rd.pc = "idle"
    /\ Lock("rd")
    /\ rd' = [rd EXCEPT !.pc = "locked"]
    /\ UNCHANGED untouchedByRead

\* the reader resolves -foo under the lock and returns
GetSettingReturn ==
    /\ rd.pc = "locked"
    /\ rd' = [pc |-> "idle", value |-> ArgsGetSetting(<<"-">> \o S_foo),
              list |-> ArgsGetSettingsList(<<"-">> \o S_foo)]
    /\ Unlock("rd")
    /\ UNCHANGED untouchedByRead

----------------------------------------------------------------------------
(* SpecConc: one thread reloads the config files while another thread      *)
(* resolves -foo up to MaxReads times.                                     *)

MaxReads == 2

IncludedName == <<"i">>

NestedName == <<"j">>

\* the config files: the main file sets foo twice or includes a second file
MainConfs ==
    {NoFile,
     File(<<Line(S_foo, <<"a">>), Line(S_foo, <<"b">>)>>),
     File(<<Line(S_foo, <<"a">>), Line(S_includeconf, IncludedName)>>)}

\* the included file sets foo, and may itself name a file to include
IncludedConfs ==
    {NoFile, File(<<Line(S_foo, <<"b">>)>>),
     File(<<Line(S_foo, <<"b">>), Line(S_includeconf, NestedName)>>)}

NestedConfs == {NoFile, File(<<Line(S_foo, <<"c">>)>>)}

\* what an earlier load left in ro_config
EarlierConfigs ==
    {EmptyMap, Put(EmptyMap, <<>>, Put(EmptyMap, S_foo, <<StrV(<<"o">>)>>))}

\* what a reader gets for -foo from the store with the given ro_config
Observed(config) ==
    [pc |-> "idle",
     value |-> GetSetting([m_settings EXCEPT !.ro_config = config], m_network,
                          S_foo, FALSE, FALSE, FALSE),
     list |-> GetSettingsList([m_settings EXCEPT !.ro_config = config],
                              m_network, S_foo, FALSE)]

InitConc ==
    /\ forced_settings = EmptyMap
    /\ command_line_options = EmptyMap
    /\ rw_settings = EmptyMap
    /\ ro_config \in EarlierConfigs
    /\ m_network = <<>>
    /\ m_command = <<>>
    /\ m_accept_any_command = TRUE
    /\ m_config_sections = <<>>
    /\ cs_args = ""
    /\ ld = LdIdle
    /\ rd = RdIdle
    /\ wr = WrIdle
    /\ ss = SsIdle
    /\ mp = MpIdle
    /\ ret = [op \in Operations |-> NoReturn]
    /\ pc = "running"
    /\ \E main \in MainConfs, included \in IncludedConfs,
          nested \in NestedConfs :
           files = [p \in {BITCOIN_CONF_FILENAME, IncludedName, NestedName} |->
                       IF p = BITCOIN_CONF_FILENAME THEN main
                       ELSE IF p = IncludedName THEN included ELSE nested]
    /\ hist = [HistIdle EXCEPT !.prev = Observed(ro_config),
                               !.released = {Observed(ro_config)}]

\* what a reader would get is recorded whenever a step of the loading thread
\* leaves the mutex free
Recorded ==
    /\ hist' = IF cs_args' = ""
               THEN [hist EXCEPT !.released = @ \cup {Observed(ro_config')}]
               ELSE hist
    /\ UNCHANGED pc

ConcClear ==
    /\ \E ignore_invalid_keys \in BOOLEAN :
           ReadConfigFilesClear(ignore_invalid_keys)
    /\ Recorded

ConcOpen == ReadConfigFilesOpen /\ Recorded

ConcStreamLock == ReadConfigStreamLock /\ Recorded

ConcStreamOption == ReadConfigStreamOption /\ Recorded

ConcStreamReturn == ReadConfigStreamReturn /\ Recorded

ConcIncludes == ReadConfigFilesIncludes /\ Recorded

ConcInclude == ReadConfigFilesInclude /\ Recorded

ConcReturn == ReadConfigFilesReturn /\ Recorded

ConcReadLock ==
    /\ Len(hist.seen) < MaxReads
    /\ GetSettingLock
    /\ UNCHANGED <<pc, hist>>

\* the reader returns; what it got is recorded
ConcReadReturn ==
    /\ GetSettingReturn
    /\ hist' = [hist EXCEPT !.seen = Append(@, rd')]
    /\ UNCHANGED pc

NextConc ==
    \/ ConcClear \/ ConcOpen \/ ConcStreamLock \/ ConcStreamOption
    \/ ConcStreamReturn \/ ConcIncludes \/ ConcInclude \/ ConcReturn
    \/ ConcReadLock \/ ConcReadReturn

SpecConc == InitConc /\ [][NextConc]_vars

\* C7 as stated: once ReadConfigFiles has returned, everything a concurrent
\* reader got for -foo is what the store gave before the load or what it gives
\* after it
C7_LoadAtomicToReaders ==
    ld.pc = "done"
    => \A i \in 1..Len(hist.seen) :
           hist.seen[i] = hist.prev \/ hist.seen[i] = Observed(ro_config)

\* C7 amended: a reader resolves -foo only while it owns cs_args and the
\* loading thread is outside ReadConfigStream, and what it gets is what the
\* store gave at a moment the loading thread left cs_args free: before the
\* load, after the clearing block, after the main file, after an included file
\* or after the load, never part of one file
C7_ReadersSeeReleasedStores ==
    /\ rd.pc = "locked" => cs_args = "rd" /\ ld.pc \notin {"option", "failed"}
    /\ ld.pc \in {"option", "failed"} => cs_args = "ld"
    /\ \A i \in 1..Len(hist.seen) : hist.seen[i] \in hist.released

\* the load replaced foo = [o] by foo = [a, b] and a reader got the empty
\* store in between
C7_Witness ==
    /\ ld.pc = "done"
    /\ ret["ReadConfigFiles"] = Returned(TRUE, "")
    /\ hist.prev.list = <<StrV(<<"o">>)>>
    /\ Observed(ro_config).list = <<StrV(<<"a">>), StrV(<<"b">>)>>
    /\ Len(hist.seen) > 0
    /\ hist.seen[1].list = <<>>
    /\ isNull(hist.seen[1].value)

\* a reader got the main file's foo = [a] before the included file added b
C7_WitnessIncluded ==
    /\ ld.pc = "done"
    /\ ret["ReadConfigFiles"] = Returned(TRUE, "")
    /\ Observed(ro_config).list = <<StrV(<<"a">>), StrV(<<"b">>)>>
    /\ Len(hist.seen) > 0
    /\ hist.seen[1].list = <<StrV(<<"a">>)>>

\* the main file includes i and i names j in an includeconf line
NestedInclude ==
    /\ files[BITCOIN_CONF_FILENAME] =
           File(<<Line(S_foo, <<"a">>), Line(S_includeconf, IncludedName)>>)
    /\ files[IncludedName] =
           File(<<Line(S_foo, <<"b">>), Line(S_includeconf, NestedName)>>)

\* the values of key in the default section of ro_config
DefaultSection(key) ==
    IF FindKey(ro_config, <<>>) /\ FindKey(ro_config[<<>>], key)
    THEN ro_config[<<>>][key] ELSE <<>>

\* C12 as stated: when an included file names a file in an includeconf line
\* and ReadConfigFiles has returned, the named file was parsed, its foo = c
\* is in ro_config, a warning was printed and the call did not fail
C12_NestedIncludeHonoured ==
    (ld.pc = "done" /\ NestedInclude /\ files[NestedName].exists)
    => /\ ret["ReadConfigFiles"] = Returned(TRUE, "")
       /\ ld.warnings = <<NestedName>>
       /\ \E i \in 1..Len(DefaultSection(S_foo)) :
              DefaultSection(S_foo)[i] = StrV(<<"c">>)

\* C12 amended: when an included file names a file in an includeconf line,
\* ReadConfigFiles returns true whether that file exists or not, a warning
\* names it, the includeconf value is kept in ro_config, and the named file
\* is not read: ro_config holds the settings of the main and the included
\* file only
C12_NestedIncludeIgnored ==
    (ld.pc = "done" /\ NestedInclude)
    => /\ ret["ReadConfigFiles"] = Returned(TRUE, "")
       /\ ld.warnings = <<NestedName>>
       /\ ld.conf_file_names = <<IncludedName>>
       /\ DefaultSection(S_includeconf)
              = <<StrV(IncludedName), StrV(NestedName)>>
       /\ DefaultSection(S_foo) = <<StrV(<<"a">>), StrV(<<"b">>)>>

\* the load has returned true with a warning about j, and j exists and sets
\* foo = c
C12_Witness ==
    /\ ld.pc = "done"
    /\ NestedInclude
    /\ files[NestedName] = File(<<Line(S_foo, <<"c">>)>>)
    /\ ld.warnings = <<NestedName>>
    /\ ret["ReadConfigFiles"] = Returned(TRUE, "")

----------------------------------------------------------------------------
(* SpecArgs: one command line of up to MaxCmdArgs tokens is parsed, with   *)
(* options that are registered or not, sectioned keys, includeconf, a lone *)
(* dash and command tokens; commands are registered or any is accepted.    *)

MaxCmdArgs == 3

S_bar == <<"b","a","r">>
S_other == <<"o","t","h","e","r">>

CmdTokens ==
    {OptVal(S_includeconf, <<"i">>), Negate(S_includeconf),
     OptVal(S_foo, <<"a">>), <<"-">> \o OptVal(S_foo, <<"b">>),
     OptVal(Dotted(S_test, S_foo), <<"s">>), OptVal(S_bar, <<"u">>),
     S_send, S_other, S_send \o <<"=", "1">>, <<"-">>}

InitArgs ==
    /\ forced_settings = EmptyMap
    /\ command_line_options = EmptyMap
    /\ rw_settings = EmptyMap
    /\ ro_config = EmptyMap
    /\ m_network = <<>>
    /\ m_command = <<>>
    /\ m_accept_any_command \in BOOLEAN
    /\ m_config_sections = <<>>
    /\ cs_args = ""
    /\ ld = LdIdle
    /\ rd = RdIdle
    /\ wr = WrIdle
    /\ ss = SsIdle
    /\ mp = MpIdle
    /\ ret = [op \in Operations |-> NoReturn]
    /\ hist = HistIdle
    /\ pc = "start"
    /\ files = NoFiles

ArgsParse ==
    /\ pc = "start"
    /\ \E argv \in Argvs(CmdTokens, MaxCmdArgs) :
           ParseParameters(argv) /\ hist' = [hist EXCEPT !.argv = argv]
    /\ pc' = "parsed"

NextArgs == ArgsParse

SpecArgs == InitArgs /\ [][NextArgs]_vars

\* the position of the first token that ends option parsing, a lone dash or a
\* token not starting with a dash; one past the end when there is none
Stop ==
    LET ends == {i \in 1..Len(Args) : Args[i] = <<"-">> \/ Args[i][1] # "-"}
    IN IF ends = {} THEN Len(Args) + 1
       ELSE CHOOSE i \in ends : \A j \in ends : i <= j

\* the tokens read as options
OptionTokens == SubSeq(Args, 1, Stop - 1)

InvalidTokens == {OptVal(Dotted(S_test, S_foo), <<"s">>), OptVal(S_bar, <<"u">>)}

\* the command token, if there is one, is accepted
CommandAccepted ==
    (Stop <= Len(Args) /\ Args[Stop] # <<"-">>)
    => (m_accept_any_command
        \/ Args[Stop] \in {S_send, S_send \o <<"=", "1">>})

AllOptionsValid ==
    \A i \in 1..Len(OptionTokens) : OptionTokens[i] \notin InvalidTokens

IncludePositions ==
    {i \in 1..Len(OptionTokens) :
         OptionTokens[i] \in {OptVal(S_includeconf, <<"i">>),
                              Negate(S_includeconf)}}

\* the last includeconf occurrence among the options is not a negation
LastIncludeNotNegated ==
    /\ IncludePositions # {}
    /\ LET last == CHOOSE i \in IncludePositions :
                       \A j \in IncludePositions : i >= j
       IN OptionTokens[last] = OptVal(S_includeconf, <<"i">>)

C11_WitnessRejected ==
    /\ pc = "parsed"
    /\ Args = <<Negate(S_includeconf), OptVal(S_includeconf, <<"i">>)>>
    /\ ret["ParseParameters"] = Returned(FALSE, "-includeconf from commandline")

\* the values stored in command_line_options under any key
StoredValues ==
    UNION {{command_line_options[k][i] : i \in 1..Len(command_line_options[k])}
           : k \in DOMAIN command_line_options}

C13_WitnessUnregistered ==
    /\ pc = "parsed"
    /\ Args = <<OptVal(S_bar, <<"u">>)>>
    /\ ret["ParseParameters"] = Returned(FALSE, "Invalid parameter")
    /\ command_line_options = EmptyMap

\* a command token was met and ParseParameters returned true
CommandMet ==
    /\ pc = "parsed"
    /\ ret["ParseParameters"].ok
    /\ Stop <= Len(Args)
    /\ Args[Stop] # <<"-">>

\* what the options before the command token give when parsed alone
OptionsBeforeCommand ==
    ParseParametersResult(<<ProgramName>> \o OptionTokens, <<>>,
                          m_accept_any_command).options

\* C14: once the first token not starting with a dash is accepted as a
\* command, that token and every later token are the command list, in order,
\* and command_line_options holds what the tokens before it give and nothing
\* else
C14_CommandAndRestAppended ==
    CommandMet
    => /\ m_command = SubSeq(Args, Stop, Len(Args))
       /\ command_line_options = OptionsBeforeCommand

\* the command token up to its first "="
CommandWord ==
    LET is_index == Find(Args[Stop], "=")
    IN IF is_index = 0 THEN Args[Stop] ELSE Head1(Args[Stop], is_index - 1)

\* what holds of the command list: the first entry is the command token cut
\* at its first "=", the later tokens follow unchanged and none of them is
\* read as an option
C14_LaterTokensNotOptions ==
    CommandMet
    => /\ m_command = <<CommandWord>> \o SubSeq(Args, Stop + 1, Len(Args))
       /\ command_line_options = OptionsBeforeCommand
       /\ GetCommand(m_command, m_accept_any_command).has

\* send=1 -foo=a was accepted: the command list holds send, without "=1", and
\* -foo=a, and no option is stored
C14_Witness ==
    /\ pc = "parsed"
    /\ ~m_accept_any_command
    /\ Args = <<S_send \o <<"=", "1">>, OptVal(S_foo, <<"a">>)>>
    /\ ret["ParseParameters"] = Returned(TRUE, "")
    /\ GetCommand(m_command, m_accept_any_command)
           = [has |-> TRUE, command |-> S_send,
              args |-> <<OptVal(S_foo, <<"a">>)>>]
    /\ command_line_options = EmptyMap

----------------------------------------------------------------------------
(* SpecConf: one config stream of up to MaxConfLines lines is read: blank  *)
(* and comment lines, a section header, options, and lines that do not     *)
(* parse.                                                                  *)

MaxConfLines == 3

S_rpcpassword == <<"r","p","c","p","a","s","s","w","o","r","d">>

Comment == <<"#", "c">>

\* lines GetConfigOptions passes over
IgnoredLines == {<<>>, <<" ">> \o Comment}

\* lines GetConfigOptions accepts
GoodLines ==
    {<<"[">> \o S_test \o <<"]">>, Line(S_foo, <<"a">>),
     Line(S_foo, <<"a">>) \o Comment, Line(S_rpcpassword, <<"p">>)}

DashLine == <<" ">> \o OptVal(S_foo, <<"a">>)

HashedPassword == Line(S_rpcpassword, <<"p">>) \o Comment

\* lines that are neither a header nor hold "="
BareLines == {S_foo, <<"n", "o">> \o S_foo}

BadLines == {DashLine, HashedPassword} \cup BareLines

ConfLines == IgnoredLines \cup GoodLines \cup BadLines

InitConf == InitIdle /\ pc = "start" /\ files = NoFiles

ConfRead ==
    /\ pc = "start"
    /\ \E stream \in SeqsUpTo(ConfLines, MaxConfLines),
          ignore_invalid_keys \in BOOLEAN :
           /\ ReadConfigStream(stream, BITCOIN_CONF_FILENAME,
                               ignore_invalid_keys)
           /\ hist' = [hist EXCEPT !.stream = stream]
    /\ pc' = "configured"

NextConf == ConfRead

SpecConf == InitConf /\ [][NextConf]_vars

ParseErrors ==
    {"options must be specified without leading -",
     "using # in rpcpassword can be ambiguous",
     "parse error, use no...=1 for a negated option", "parse error"}

\* the error text each kind of bad line gets
ParseErrorOf(line) ==
    IF line = DashLine THEN "options must be specified without leading -"
    ELSE IF line = HashedPassword THEN "using # in rpcpassword can be ambiguous"
    ELSE IF line = S_foo THEN "parse error"
    ELSE "parse error, use no...=1 for a negated option"

BadPositions == {i \in 1..Len(hist.stream) : hist.stream[i] \in BadLines}

FirstBad == CHOOSE i \in BadPositions : \A j \in BadPositions : i <= j

\* C15: reading a config stream fails with a parse error naming the 1-based
\* number of the first line that starts with "-", that is neither a header nor
\* holds "=", or that sets an rpcpassword and had a comment cut off; blank and
\* comment-only lines before it are counted; nothing of the stream is stored.
\* A stream without such a line gives no parse error.
C15_ParseErrorNamesLine ==
    pc = "configured"
    => IF BadPositions # {}
       THEN /\ ret["ReadConfigStream"]
                   = ReturnedAt(FALSE, ParseErrorOf(hist.stream[FirstBad]),
                                FirstBad)
            /\ ro_config = EmptyMap
       ELSE /\ ret["ReadConfigStream"].line = 0
            /\ ret["ReadConfigStream"].error \notin ParseErrors

\* a blank line, a comment line and then -foo=a: the error names line 3
C15_Witness ==
    /\ pc = "configured"
    /\ hist.stream = <<<<>>, <<" ">> \o Comment, DashLine>>
    /\ ret["ReadConfigStream"]
           = ReturnedAt(FALSE, "options must be specified without leading -", 3)

\* foo=a, a blank line and rpcpassword=p#c: the error names line 3 and foo is
\* not stored
C15_WitnessPassword ==
    /\ pc = "configured"
    /\ hist.stream = <<Line(S_foo, <<"a">>), <<>>, HashedPassword>>
    /\ ret["ReadConfigStream"]
           = ReturnedAt(FALSE, "using # in rpcpassword can be ambiguous", 3)
    /\ ro_config = EmptyMap

----------------------------------------------------------------------------
(* SpecValue: -foo is given on the command line, plain or negated, with a  *)
(* value of up to MaxValueLen characters or none, the settings file holds  *)
(* foo with a value of one of the variants, and -foo is then read as a     *)
(* string, an integer and a boolean.                                       *)

MaxValueLen == 3

ValueChars == {"0", "1", "-", "+", " "}

ValueStrings ==
    SeqsUpTo(ValueChars, MaxValueLen)
    \cup {<<"t","r","u","e">>, <<"f","a","l","s","e">>, <<"1","t">>,
          <<"2","1","4","7","4","8","3","6","4","8">>}

NegatedValue(v) == Negate(S_foo) \o <<"=">> \o v

ValueTokens ==
    {Opt(S_foo), Negate(S_foo)}
    \cup {OptVal(S_foo, v) : v \in ValueStrings}
    \cup {NegatedValue(v) : v \in ValueStrings}

Variants ==
    {NullV, BoolV(FALSE), BoolV(TRUE), NumV(<<"7">>), NumV(<<"1", ".", "5">>),
     StrV(<<"8">>), StrV(<<>>), ArrV(<<StrV(<<"a">>)>>), ObjV}

InitValue ==
    /\ InitIdle
    /\ pc = "start"
    /\ \E f \in {NoFile} \cup {FooFile(v) : v \in Variants} :
           files = [p \in SettingsPaths |->
                       IF p = BITCOIN_SETTINGS_FILENAME THEN f ELSE NoFile]

ValueParse ==
    /\ pc = "start"
    /\ \E args \in {<<>>} \cup {<<t>> : t \in ValueTokens} :
           /\ ParseParameters(<<ProgramName>> \o args)
           /\ hist' = [hist EXCEPT !.argv = <<ProgramName>> \o args]
    /\ pc' = "parsed"

ValueLoad ==
    /\ pc = "parsed"
    /\ ReadSettingsFile
    /\ pc' = "loaded"
    /\ UNCHANGED hist

\* GetArg, GetIntArg and GetBoolArg of -foo
ValueGet ==
    /\ pc = "loaded"
    /\ hist' = [hist EXCEPT !.output =
                    [str |-> SettingToString(ArgsGetSetting(<<"-">> \o S_foo)),
                     int |-> GetIntArg(<<"-">> \o S_foo),
                     bool |-> GetBoolArg(<<"-">> \o S_foo)]]
    /\ pc' = "read"
    /\ UNCHANGED <<storeVars, files, threadVars, ret>>

NextValue == ValueParse \/ ValueLoad \/ ValueGet

SpecValue == InitValue /\ [][NextValue]_vars

\* the text reads as an integer other than zero: after white space at both
\* ends and one sign are dropped it starts with digits that are not all 0
NonzeroInteger(v) ==
    LET t == TrimString(v)
        u == IF t # <<>> /\ t[1] \in {"+", "-"} THEN Tail(t) ELSE t
        d == DigitPrefix(u)
    IN \E i \in 1..Len(d) : d[i] # "0"

\* C16: a negated key with a value that is not empty and does not read as a
\* nonzero integer is stored as true; a negated key without a value, with an
\* empty value or with a value that reads as a nonzero integer is stored as
\* false
C16_DoubleNegative ==
    pc # "start"
    => /\ Args = <<Negate(S_foo)>>
          => command_line_options = Put(EmptyMap, S_foo, <<BoolV(FALSE)>>)
       /\ \A v \in ValueStrings :
              Args = <<NegatedValue(v)>>
              => /\ ret["ParseParameters"] = Returned(TRUE, "")
                 /\ command_line_options
                        = Put(EmptyMap, S_foo,
                              <<BoolV(v # <<>> /\ ~NonzeroInteger(v))>>)

\* -nofoo=0 is stored as true
C16_Witness ==
    /\ pc = "parsed"
    /\ Args = <<NegatedValue(<<"0">>)>>
    /\ command_line_options = Put(EmptyMap, S_foo, <<BoolV(TRUE)>>)

\* -nofoo=1 and -nofoo= are stored as false
C16_WitnessFalse ==
    /\ pc = "parsed"
    /\ Args \in {<<NegatedValue(<<"1">>)>>, <<NegatedValue(<<>>)>>}
    /\ command_line_options = Put(EmptyMap, S_foo, <<BoolV(FALSE)>>)

\* C17: a string given for -foo reads as a boolean without an error: true
\* when it is empty or reads as a nonzero integer, false otherwise
C17_LenientBool ==
    pc = "read"
    => /\ Args = <<Opt(S_foo)>> => hist.output.bool = Result(TRUE)
       /\ \A v \in ValueStrings :
              Args = <<OptVal(S_foo, v)>>
              => hist.output.bool = Result(v = <<>> \/ NonzeroInteger(v))

\* -foo=true reads as false
C17_Witness ==
    /\ pc = "read"
    /\ Args = <<OptVal(S_foo, <<"t","r","u","e">>)>>
    /\ hist.output.bool = Result(FALSE)

\* -foo= and -foo=-1 read as true
C17_WitnessTrue ==
    /\ pc = "read"
    /\ Args \in {<<OptVal(S_foo, <<>>)>>, <<OptVal(S_foo, <<"-", "1">>)>>}
    /\ hist.output.bool = Result(TRUE)

\* what -foo resolves to
Resolved == ArgsGetSetting(<<"-">> \o S_foo)

C20_WitnessNumber ==
    /\ pc = "read"
    /\ Args = <<>>
    /\ rw_settings = Put(EmptyMap, S_foo, NumV(<<"7">>))
    /\ hist.output.str = [has |-> TRUE, threw |-> FALSE, s |-> <<"7">>]
    /\ hist.output.int = Result(Integer(FALSE, <<"7">>))
    /\ hist.output.bool.threw

----------------------------------------------------------------------------
(* SpecKey: InterpretKey is applied to one key of up to MaxKeyLen          *)
(* characters, or to testnet.nodebug.                                      *)

MaxKeyLen == 3

KeyChars == {"n", "o", ".", "a"}

S_debug == <<"d","e","b","u","g">>

Keys ==
    SeqsUpTo(KeyChars, MaxKeyLen)
    \cup {Dotted(S_testnet, <<"n", "o">> \o S_debug)}

InitKey ==
    /\ InitStore
    /\ pc = "start"
    /\ files = NoFiles
    /\ \E key \in Keys : hist = [HistIdle EXCEPT !.key = key]

KeyInterpret ==
    /\ pc = "start"
    /\ hist' = [hist EXCEPT !.keyinfo = InterpretKey(hist.key)]
    /\ pc' = "done"
    /\ UNCHANGED <<storeVars, files, threadVars, ret>>

NextKey == KeyInterpret

SpecKey == InitKey /\ [][NextKey]_vars

\* C18: InterpretKey gives a result for every key: the key is the section and
\* a "." (when the key holds a "."), then "no" (when negated), then the name;
\* the section holds no "." and is empty when the key holds none; and the
\* result is negated whenever what follows the section starts with "no"
C18_KeySplit ==
    pc = "done"
    => LET r == hist.keyinfo
           dotted == \E i \in 1..Len(hist.key) : hist.key[i] = "."
       IN /\ hist.key = (IF dotted THEN r.section \o <<".">> ELSE <<>>)
                        \o (IF r.negated THEN <<"n", "o">> ELSE <<>>)
                        \o r.name
          /\ \A i \in 1..Len(r.section) : r.section[i] # "."
          /\ ~dotted => r.section = <<>>
          /\ ~r.negated => ~(Len(r.name) >= 2 /\ r.name[1] = "n"
                             /\ r.name[2] = "o")

\* testnet.nodebug gave section testnet, name debug, negated
C18_Witness ==
    /\ pc = "done"
    /\ hist.key = Dotted(S_testnet, <<"n", "o">> \o S_debug)
    /\ hist.keyinfo = [name |-> S_debug, section |-> S_testnet,
                       negated |-> TRUE]

\* the key "no" gave an empty name, negated
C18_WitnessNo ==
    /\ pc = "done"
    /\ hist.key = <<"n", "o">>
    /\ hist.keyinfo = [name |-> <<>>, section |-> <<>>, negated |-> TRUE]

----------------------------------------------------------------------------
(* SpecRead: util::ReadSettings is called once on a settings file that is  *)
(* missing, an object of up to MaxMembers members, not an object or not    *)
(* JSON, with a map and an error list that may hold something already; the *)
(* file may fail to open and the read may fail part-way.                   *)

MaxMembers == 2

Members ==
    {<<S_foo, StrV(<<"a">>)>>, <<S_foo, StrV(<<"b">>)>>,
     <<S_chain, StrV(<<"c">>)>>}

\* the settings file with the given members, in their order
ObjectFile(members) ==
    File(WriteObject([i \in 1..Len(members) |-> members[i][1]],
                     [i \in 1..Len(members) |-> members[i][2]]))

NonObjectFiles == {File(<<Punct("["), Punct("]")>>), File(<<Tok("str", <<"x">>)>>)}

UnparsableFiles == {File(<<>>), File(<<Punct("{"), Tok("str", S_foo)>>)}

ReadFiles ==
    {NoFile} \cup NonObjectFiles \cup UnparsableFiles
    \cup {ObjectFile(members) : members \in SeqsUpTo(Members, MaxMembers)}

InitRead ==
    /\ forced_settings = EmptyMap
    /\ command_line_options = EmptyMap
    /\ rw_settings \in {EmptyMap, Put(EmptyMap, S_bar, StrV(<<"o">>))}
    /\ ro_config = EmptyMap
    /\ m_network = <<>>
    /\ m_command = <<>>
    /\ m_accept_any_command = TRUE
    /\ m_config_sections = <<>>
    /\ cs_args = ""
    /\ ld = LdIdle
    /\ rd = RdIdle
    /\ wr = WrIdle
    /\ ss = SsIdle
    /\ mp = MpIdle
    /\ ret = [op \in Operations |-> NoReturn]
    /\ pc = "start"
    /\ \E f \in ReadFiles :
           files = [p \in SettingsPaths |->
                       IF p = BITCOIN_SETTINGS_FILENAME THEN f ELSE NoFile]
    /\ \E errors \in {<<>>, <<"old error">>} :
           hist = [HistIdle EXCEPT !.errors = errors]

\* util::ReadSettings(path, values, errors) with rw_settings as values
ReadCall ==
    /\ pc = "start"
    /\ \E is_open \in BOOLEAN, fail \in BOOLEAN,
          got \in 0..Len(files[BITCOIN_SETTINGS_FILENAME].data) :
           LET file == files[BITCOIN_SETTINGS_FILENAME]
               r == ReadSettings(file, rw_settings, hist.errors, is_open, got,
                                 fail)
           IN  /\ fail \/ got = Len(file.data)
               /\ rw_settings' = r.values
               /\ ret' = [ret EXCEPT !["ReadSettings"] = Returned(r.ok, "")]
               /\ hist' = [hist EXCEPT
                               !.errors = r.errors,
                               !.io = [is_open |-> is_open, got |-> got,
                                       fail |-> fail]]
    /\ pc' = "done"
    /\ UNCHANGED <<forced_settings, command_line_options, ro_config,
                   m_network, m_command, m_accept_any_command,
                   m_config_sections, files, threadVars>>

NextRead == ReadCall

SpecRead == InitRead /\ [][NextRead]_vars

\* some key occurs twice among the members
HasDuplicate(members) ==
    \E i, j \in 1..Len(members) : i < j /\ members[i][1] = members[j][1]

\* the map with the given members
MapOf(members) ==
    [k \in {members[i][1] : i \in 1..Len(members)} |->
        members[CHOOSE i \in 1..Len(members) : members[i][1] = k][2]]

\* C19: ReadSettings returns true exactly when it leaves no error; nothing that
\* was in the map or the error list before the call is left; a missing file
\* gives true with an empty map; a file that does not open, does not parse,
\* is not an object or holds a key twice gives false with at least one error;
\* an object without a duplicate gives true with its members
C19_ReadSettingsOutcome ==
    pc = "done"
    => LET file == files[BITCOIN_SETTINGS_FILENAME]
           r == ret["ReadSettings"]
           whole == hist.io.is_open /\ ~hist.io.fail
       IN  /\ r.ok <=> hist.errors = <<>>
           /\ \A i \in 1..Len(hist.errors) : hist.errors[i] # "old error"
           /\ S_bar \notin DOMAIN rw_settings
           /\ ~file.exists => r.ok /\ rw_settings = EmptyMap
           /\ (file.exists /\ ~hist.io.is_open)
              => ~r.ok /\ Len(hist.errors) >= 1 /\ rw_settings = EmptyMap
           /\ (whole /\ file \in UnparsableFiles \cup NonObjectFiles)
              => ~r.ok /\ Len(hist.errors) >= 1 /\ rw_settings = EmptyMap
           /\ \A members \in SeqsUpTo(Members, MaxMembers) :
                  (whole /\ file = ObjectFile(members))
                  => IF HasDuplicate(members)
                     THEN ~r.ok /\ Len(hist.errors) >= 1
                     ELSE r.ok /\ rw_settings = MapOf(members)

\* a file holding foo twice was read into a map that held bar, with an old
\* error in the list: false, one new error, and the map holds the first foo
C19_Witness ==
    /\ pc = "done"
    /\ files[BITCOIN_SETTINGS_FILENAME]
           = ObjectFile(<<<<S_foo, StrV(<<"a">>)>>, <<S_foo, StrV(<<"b">>)>>>>)
    /\ hist.io = [is_open |-> TRUE, got |-> 9, fail |-> FALSE]
    /\ ret["ReadSettings"] = Returned(FALSE, "")
    /\ hist.errors = <<"Found duplicate key">>
    /\ rw_settings = Put(EmptyMap, S_foo, StrV(<<"a">>))

\* the file exists and does not open: false with one error
C19_WitnessNotOpen ==
    /\ pc = "done"
    /\ files[BITCOIN_SETTINGS_FILENAME].exists
    /\ ~hist.io.is_open
    /\ ret["ReadSettings"] = Returned(FALSE, "")
    /\ hist.errors = <<"Please check permissions">>

\* the file is missing: true, no error, an empty map
C19_WitnessMissing ==
    /\ pc = "done"
    /\ files[BITCOIN_SETTINGS_FILENAME] = NoFile
    /\ ret["ReadSettings"] = Returned(TRUE, "")
    /\ hist.errors = <<>>
    /\ rw_settings = EmptyMap

----------------------------------------------------------------------------
(* SpecInt: one string is handed to ParseInt64 and to                      *)
(* LocaleIndependentAtoi<int64_t>.                                         *)

MaxLeadingZeros == 1

S_int32max == <<"2","1","4","7","4","8","3","6","4","7">>
S_int64max == MaxMagnitude(64, FALSE)
S_int64next == MaxMagnitude(64, TRUE)
S_int64over == Head1(S_int64max, 18) \o <<"9">>
S_huge == <<"3","2","4","8","2","3","4","8","7","2","3","8","4","7","4","7","1","2","3","4">>

\* what comes before the digits, the digits, and what comes after them
IntLeads == {<<>>, <<" ">>}
IntSigns == {<<>>, <<"-">>, <<"+">>, <<"+", "-">>}
IntBodies ==
    {<<>>, <<"1","2","3","4">>, S_int32max, S_int64max, S_int64next,
     S_int64over, S_huge}
IntTrails == {<<>>, <<" ">>, <<"a">>, <<"x", "1">>}

IntZeros(n) == [i \in 1..n |-> "0"]

IntStrings ==
    {lead \o sign \o IntZeros(z) \o body \o trail :
        lead \in IntLeads, sign \in IntSigns, z \in 0..MaxLeadingZeros,
        body \in IntBodies, trail \in IntTrails}

InitInt ==
    /\ InitStore
    /\ files = [p \in SettingsPaths |-> NoFile]
    /\ pc = "input"
    /\ \E str \in IntStrings : hist = [HistIdle EXCEPT !.number.str = str]

\* ParseInt64(str, &n)
IntParse ==
    /\ pc = "input"
    /\ ~hist.number.parsed.called
    /\ hist' = [hist EXCEPT !.number.parsed =
                    [called |-> TRUE, ok |-> ParseInt64(hist.number.str).ok,
                     n |-> ParseInt64(hist.number.str).n]]
    /\ UNCHANGED <<storeVars, files, pc, threadVars, ret>>

\* LocaleIndependentAtoi<int64_t>(str)
IntAtoi ==
    /\ pc = "input"
    /\ ~hist.number.atoi.called
    /\ hist' = [hist EXCEPT !.number.atoi =
                    [called |-> TRUE,
                     n |-> LocaleIndependentAtoi(hist.number.str, 64)]]
    /\ UNCHANGED <<storeVars, files, pc, threadVars, ret>>

NextInt == IntParse \/ IntAtoi

SpecInt == InitInt /\ [][NextInt]_vars

DecimalDigits == {"0", "1", "2", "3", "4", "5", "6", "7", "8", "9"}

\* the string without its sign
Unsigned(str) ==
    IF str # <<>> /\ str[1] \in {"+", "-"} THEN Tail(str) ELSE str

\* an optional sign and then one or more decimal digits, nothing else
DecimalString(str) ==
    /\ Unsigned(str) # <<>>
    /\ \A i \in 1..Len(Unsigned(str)) : Unsigned(str)[i] \in DecimalDigits

\* the digits from the first one that is not 0 on
Significant(ds) ==
    LET nonzero == {i \in 1..Len(ds) : ds[i] # "0"}
    IN  IF nonzero = {} THEN <<>>
        ELSE SubSeq(ds, CHOOSE i \in nonzero : \A j \in nonzero : i <= j,
                    Len(ds))

RECURSIVE Natural(_)
\* the number a short run of digits stands for
Natural(ds) ==
    IF ds = <<>> THEN 0
    ELSE 10 * Natural(SubSeq(ds, 1, Len(ds) - 1)) + DigitValue(ds[Len(ds)])

\* a number of up to 21 digits as three numbers of seven digits each
Groups(ds) ==
    LET sig == Significant(ds)
        padded == IntZeros(21 - Len(sig)) \o sig
    IN  [k \in 1..3 |-> Natural(SubSeq(padded, 7 * (k - 1) + 1, 7 * k))]

GroupsLess(x, y) ==
    \E k \in 1..3 :
        /\ x[k] < y[k]
        /\ \A j \in 1..(k - 1) : x[j] = y[j]

\* 9223372036854775807 and 9223372036854775808 in groups of seven digits
Int64MaxGroups == <<92233, 7203685, 4775807>>
Int64MinGroups == <<92233, 7203685, 4775808>>

IsMinus(str) == str # <<>> /\ str[1] = "-"

IntLimit(str) == IF IsMinus(str) THEN Int64MinGroups ELSE Int64MaxGroups

\* the value of a decimal string lies in [INT64_MIN, INT64_MAX]
InInt64(str) ==
    /\ Len(Significant(Unsigned(str))) <= 21
    /\ ~GroupsLess(IntLimit(str), Groups(Unsigned(str)))

\* the integer n is the value the decimal string stands for
IsValueOf(n, str) ==
    /\ Groups(n.mag) = Groups(Unsigned(str))
    /\ n.neg = (IsMinus(str) /\ Significant(Unsigned(str)) # <<>>)

\* C21: ParseInt64 succeeds exactly on the decimal strings (no white space
\* around them, no hex, nothing after the digits) whose value lies in
\* [INT64_MIN, INT64_MAX], and then returns that value: 9223372036854775807
\* succeeds, 9223372036854775808 and -9223372036854775809 fail;
\* LocaleIndependentAtoi<int64_t> returns the largest or the smallest int64
\* for a decimal string whose value is out of range
C21_IntegerBoundaries ==
    LET str == hist.number.str
        parsed == hist.number.parsed
        atoi == hist.number.atoi
    IN  /\ parsed.called
           => /\ parsed.ok <=> (DecimalString(str) /\ InInt64(str))
              /\ parsed.ok => IsValueOf(parsed.n, str)
              /\ str = S_int64max => parsed.ok /\ parsed.n.mag = S_int64max
              /\ str = S_int64next => ~parsed.ok
              /\ str = <<"-">> \o S_int64over => ~parsed.ok
        /\ (atoi.called /\ DecimalString(str) /\ ~InInt64(str))
           => /\ Groups(atoi.n.mag) = IntLimit(str)
              /\ atoi.n.neg = IsMinus(str)

\* 9223372036854775808 has been given to both: ParseInt64 failed and
\* LocaleIndependentAtoi<int64_t> returned 9223372036854775807
C21_Witness ==
    /\ hist.number.str = S_int64next
    /\ hist.number.parsed = [called |-> TRUE, ok |-> FALSE, n |-> Zero]
    /\ hist.number.atoi = [called |-> TRUE,
                           n |-> Integer(FALSE, S_int64max)]

\* -9223372036854775808 has been parsed and is the value returned
C21_WitnessMin ==
    /\ hist.number.str = <<"-">> \o S_int64next
    /\ hist.number.parsed = [called |-> TRUE, ok |-> TRUE,
                             n |-> Integer(TRUE, S_int64next)]

----------------------------------------------------------------------------
(* SpecSpan: a SettingsSpan is put over one list of values and asked for   *)
(* its negated count, its range and its emptiness.                         *)

MaxSpanLen == 4

SpanTokens == {BoolV(FALSE), BoolV(TRUE), StrV(<<"a">>)}

InitSpan ==
    /\ InitStore
    /\ files = [p \in SettingsPaths |-> NoFile]
    /\ pc = "span"
    /\ \E values \in SeqsUpTo(SpanTokens, MaxSpanLen) :
           hist = [HistIdle EXCEPT !.span.values = values]

\* SettingsSpan(vec) and its members negated, begin .. end, empty, last_negated
SpanView ==
    /\ pc = "span"
    /\ ~hist.span.viewed
    /\ hist' = [hist EXCEPT
                   !.span = [values |-> @.values, viewed |-> TRUE,
                             negated |-> negated(@.values),
                             live |-> SpanValues(@.values),
                             empty |-> empty(@.values),
                             last_negated |-> last_negated(@.values)]]
    /\ UNCHANGED <<storeVars, files, pc, threadVars, ret>>

NextSpan == SpanView

SpecSpan == InitSpan /\ [][NextSpan]_vars

\* where the false values of a list are
FalsePositions(values) == {i \in 1..Len(values) : values[i] = BoolV(FALSE)}

\* how many false values the list ends with
TrailingFalse(values) ==
    LET others == {i \in 1..Len(values) : values[i] # BoolV(FALSE)}
    IN  IF others = {} THEN Len(values)
        ELSE Len(values) - (CHOOSE i \in others : \A j \in others : j <= i)

\* the position of the last false value of a list, 0 when it has none
LastFalse(values) ==
    IF FalsePositions(values) = {} THEN 0
    ELSE CHOOSE i \in FalsePositions(values) :
             \A j \in FalsePositions(values) : j <= i

\* C22 as stated: negated() is the number of false values the list ends
\* with, counted from the end up to the first value that is not false, and 0
\* when the list is empty or its last value is not false
C22_NegatedCountsTrailing ==
    hist.span.viewed
    => /\ hist.span.negated = TrailingFalse(hist.span.values)
       /\ (hist.span.values = <<>> \/ ~hist.span.last_negated)
          => hist.span.negated = 0

\* C22: negated() is the position of the last false value of the list, that
\* is the number of values up to and including it, and 0 exactly when the
\* list holds no false value; it is the number of trailing false values only
\* when nothing but false values come before the last one
C22_NegatedIsLastFalse ==
    hist.span.viewed
    => /\ hist.span.negated = LastFalse(hist.span.values)
       /\ hist.span.negated = 0 <=> FalsePositions(hist.span.values) = {}
       /\ hist.span.negated >= TrailingFalse(hist.span.values)
       /\ hist.span.last_negated => hist.span.negated = Len(hist.span.values)

\* the list [false, "a"] has been viewed: negated() is 1 although the list
\* does not end in false
C22_Witness ==
    /\ hist.span.viewed
    /\ hist.span.values = <<BoolV(FALSE), StrV(<<"a">>)>>
    /\ hist.span.negated = 1
    /\ TrailingFalse(hist.span.values) = 0

\* C23: the values in [begin(), end()) are the values after the last false
\* value of the list, all of the list when it holds none; no value of the
\* range is false, and the range is empty exactly when the list is empty or
\* ends in false, which is when empty() holds
C23_LiveValuesAfterLastFalse ==
    LET values == hist.span.values
        live == hist.span.live
    IN  hist.span.viewed
        => /\ Len(live) = Len(values) - LastFalse(values)
           /\ \A j \in 1..Len(live) : live[j] = values[LastFalse(values) + j]
           /\ FalsePositions(values) = {} => live = values
           /\ FalsePositions(live) = {}
           /\ live = <<>>
              <=> (values = <<>> \/ values[Len(values)] = BoolV(FALSE))
           /\ live = <<>> <=> hist.span.empty

\* the list ["a", false, true, "a"] has been viewed and its live values are
\* [true, "a"]
C23_Witness ==
    /\ hist.span.viewed
    /\ hist.span.values
       = <<StrV(<<"a">>), BoolV(FALSE), BoolV(TRUE), StrV(<<"a">>)>>
    /\ hist.span.live = <<BoolV(TRUE), StrV(<<"a">>)>>
    /\ ~hist.span.empty

\* the list [false, "a", false] has been viewed: no live values, empty()
C23_WitnessEmpty ==
    /\ hist.span.viewed
    /\ hist.span.values = <<BoolV(FALSE), StrV(<<"a">>), BoolV(FALSE)>>
    /\ hist.span.live = <<>>
    /\ hist.span.empty

----------------------------------------------------------------------------
(* SpecMerge: the five sources hold some values for foo, and one of        *)
(* GetSetting, GetSettingsList and OnlyHasDefaultSectionSetting is called  *)
(* on the store with the arguments the ArgsManager calls it with.          *)

MaxMergeArgs == 3

\* the values of the command line: a negation and two values
MergeTokens == {BoolV(FALSE), StrV(<<"a">>), StrV(<<"b">>)}

\* ForceSetArg and SoftSetArg store strings
MergeForced == {EmptyMap, Put(EmptyMap, S_foo, StrV(ForcedValue))}

\* the settings file may hold any JSON value: a string, false, null or an
\* array
MergeRw ==
    {EmptyMap, Put(EmptyMap, S_foo, StrV(<<"r">>)),
     Put(EmptyMap, S_foo, BoolV(FALSE)), Put(EmptyMap, S_foo, NullV),
     Put(EmptyMap, S_foo, ArrV(<<StrV(<<"r">>), StrV(<<"s">>)>>))}

\* what a config section holds for foo; the empty list stands for no entry
NetworkLists ==
    {<<>>, <<StrV(<<"n">>)>>, <<BoolV(FALSE)>>,
     <<BoolV(FALSE), StrV(<<"n">>)>>}

DefaultLists ==
    {<<>>, <<StrV(<<"c">>)>>, <<BoolV(FALSE)>>,
     <<StrV(<<"c">>), BoolV(FALSE)>>, <<BoolV(FALSE), StrV(<<"c">>)>>,
     <<StrV(<<"c">>), StrV(<<"d">>)>>}

\* ro_config with the given lists for foo in section test and in the default
\* section
MergeConfig(network, default) ==
    LET config == IF default = <<>> THEN EmptyMap
                  ELSE Put(EmptyMap, <<>>, Put(EmptyMap, S_foo, default))
    IN  IF network = <<>> THEN config
        ELSE Put(config, S_test, Put(EmptyMap, S_foo, network))

\* the arguments util::GetSetting is called with: by ArgsManager::GetSetting
\* and GetPersistentSetting on the selected network, by GetChainName on no
\* section
GetSettingCalls ==
    {[section |-> m_network, ignore_default_section_config |-> ids,
      ignore_nonpersistent |-> inp, get_chain_name |-> FALSE] :
         ids \in BOOLEAN, inp \in BOOLEAN}
    \cup {[section |-> <<>>, ignore_default_section_config |-> FALSE,
           ignore_nonpersistent |-> FALSE, get_chain_name |-> TRUE]}

InitMerge ==
    /\ forced_settings \in MergeForced
    /\ \E values \in SeqsUpTo(MergeTokens, MaxMergeArgs) :
           command_line_options = IF values = <<>> THEN EmptyMap
                                  ELSE Put(EmptyMap, S_foo, values)
    /\ rw_settings \in MergeRw
    /\ \E network \in NetworkLists, default \in DefaultLists :
           ro_config = MergeConfig(network, default)
    /\ m_network \in {<<>>, S_test}
    /\ m_command = <<>>
    /\ m_accept_any_command = TRUE
    /\ m_config_sections = <<>>
    /\ cs_args = ""
    /\ ld = LdIdle
    /\ rd = RdIdle
    /\ wr = WrIdle
    /\ ss = SsIdle
    /\ mp = MpIdle
    /\ ret = [op \in Operations |-> NoReturn]
    /\ files = [p \in SettingsPaths |-> NoFile]
    /\ pc = "store"
    /\ hist = HistIdle

\* util::GetSetting(m_settings, section, "foo", ...)
MergeGet ==
    /\ pc = "store"
    /\ \E call \in GetSettingCalls :
           hist' = [hist EXCEPT
                       !.merge.called = "GetSetting",
                       !.merge.section = call.section,
                       !.merge.ignore_default_section_config =
                           call.ignore_default_section_config,
                       !.merge.ignore_nonpersistent =
                           call.ignore_nonpersistent,
                       !.merge.get_chain_name = call.get_chain_name,
                       !.merge.value =
                           GetSetting(m_settings, call.section, S_foo,
                                      call.ignore_default_section_config,
                                      call.ignore_nonpersistent,
                                      call.get_chain_name)]
    /\ pc' = "merged"
    /\ UNCHANGED <<storeVars, files, threadVars, ret>>

\* util::GetSettingsList(m_settings, m_network, "foo", ...)
MergeList ==
    /\ pc = "store"
    /\ \E ignore_default_section_config \in BOOLEAN :
           hist' = [hist EXCEPT
                       !.merge.called = "GetSettingsList",
                       !.merge.section = m_network,
                       !.merge.ignore_default_section_config =
                           ignore_default_section_config,
                       !.merge.list =
                           GetSettingsList(m_settings, m_network, S_foo,
                                           ignore_default_section_config)]
    /\ pc' = "merged"
    /\ UNCHANGED <<storeVars, files, threadVars, ret>>

\* util::OnlyHasDefaultSectionSetting(m_settings, m_network, "foo")
MergeOnly ==
    /\ pc = "store"
    /\ hist' = [hist EXCEPT
                   !.merge.called = "OnlyHasDefaultSectionSetting",
                   !.merge.section = m_network,
                   !.merge.only =
                       OnlyHasDefaultSectionSetting(m_settings, m_network,
                                                    S_foo)]
    /\ pc' = "merged"
    /\ UNCHANGED <<storeVars, files, threadVars, ret>>

\* ArgsManager::GetPersistentSetting("foo")
MergePersistent ==
    /\ pc = "store"
    /\ hist' = [hist EXCEPT
                   !.merge.called = "GetPersistentSetting",
                   !.merge.section = m_network,
                   !.merge.value = GetPersistentSetting(S_foo)]
    /\ pc' = "merged"
    /\ UNCHANGED <<storeVars, files, threadVars, ret>>

\* ArgsManager::GetSetting and ArgsManager::GetSettingsList for foo on the
\* same store, with the same section and the same flag
MergeBoth ==
    /\ pc = "store"
    /\ \E ignore_default_section_config \in BOOLEAN :
           hist' = [hist EXCEPT
                       !.merge.called = "GetSetting, GetSettingsList",
                       !.merge.section = m_network,
                       !.merge.ignore_default_section_config =
                           ignore_default_section_config,
                       !.merge.value =
                           GetSetting(m_settings, m_network, S_foo,
                                      ignore_default_section_config,
                                      FALSE, FALSE),
                       !.merge.list =
                           GetSettingsList(m_settings, m_network, S_foo,
                                           ignore_default_section_config)]
    /\ pc' = "merged"
    /\ UNCHANGED <<storeVars, files, threadVars, ret>>

NextMerge ==
    MergeGet \/ MergeList \/ MergeOnly \/ MergePersistent \/ MergeBoth

SpecMerge == InitMerge /\ [][NextMerge]_vars

\* what a source holds for foo, the empty list when it holds nothing
ForcedList ==
    IF S_foo \in DOMAIN forced_settings THEN <<forced_settings[S_foo]>>
    ELSE <<>>

CommandLineList ==
    IF S_foo \in DOMAIN command_line_options
    THEN command_line_options[S_foo] ELSE <<>>

RwList ==
    IF S_foo \in DOMAIN rw_settings THEN <<rw_settings[S_foo]>> ELSE <<>>

\* the list of the section the call names; no section, no list
NetworkList ==
    IF hist.merge.section # <<>> /\ hist.merge.section \in DOMAIN ro_config
       /\ S_foo \in DOMAIN ro_config[hist.merge.section]
    THEN ro_config[hist.merge.section][S_foo] ELSE <<>>

DefaultList ==
    IF <<>> \in DOMAIN ro_config /\ S_foo \in DOMAIN ro_config[<<>>]
    THEN ro_config[<<>>][S_foo] ELSE <<>>

\* the list ends in a negation
WhollyNegated(values) ==
    values # <<>> /\ values[Len(values)] = BoolV(FALSE)

\* the values of a list after its last negation
LiveAfter(values) ==
    [j \in 1..(Len(values) - LastFalse(values)) |->
        values[LastFalse(values) + j]]

\* no source before the config default section holds anything for foo
OnlyDefaultSectionSet ==
    /\ ForcedList = <<>>
    /\ CommandLineList = <<>>
    /\ RwList = <<>>
    /\ NetworkList = <<>>

\* the store without the entry of foo in the config default section
WithoutDefaultSection ==
    [m_settings EXCEPT
        !.ro_config = [s \in DOMAIN ro_config \ {<<>>} |-> ro_config[s]]]

\* C24: GetSetting with ignore_default_section_config passes over the list
\* of the config default section unless it ends in a negation; when no source
\* before it holds the key, a default-section list ending in false gives
\* Bool(false) and one not ending in false leaves the result null
C24_NegatedDefaultSectionApplied ==
    (hist.merge.called = "GetSetting"
     /\ hist.merge.ignore_default_section_config)
    => /\ ~WhollyNegated(DefaultList)
          => hist.merge.value
             = GetSetting(WithoutDefaultSection, hist.merge.section, S_foo,
                          TRUE, hist.merge.ignore_nonpersistent,
                          hist.merge.get_chain_name)
       /\ OnlyDefaultSectionSet
          => /\ WhollyNegated(DefaultList)
                => hist.merge.value = BoolV(FALSE)
             /\ ~WhollyNegated(DefaultList) => hist.merge.value = NullV

\* the default section holds [c, false] for foo, nothing else holds foo, and
\* GetSetting ignoring the default section has returned false
C24_Witness ==
    /\ hist.merge.called = "GetSetting"
    /\ hist.merge.ignore_default_section_config
    /\ OnlyDefaultSectionSet
    /\ DefaultList = <<StrV(<<"c">>), BoolV(FALSE)>>
    /\ hist.merge.value = BoolV(FALSE)

\* the default section holds [false, c] and the result is null
C24_WitnessIgnored ==
    /\ hist.merge.called = "GetSetting"
    /\ hist.merge.ignore_default_section_config
    /\ OnlyDefaultSectionSet
    /\ DefaultList = <<BoolV(FALSE), StrV(<<"c">>)>>
    /\ hist.merge.value = NullV

\* the lists that can decide the chain-name lookup, in the order of the
\* sources: a command line ending in a negation is passed over
ChainCandidates ==
    SelectSeq(<<ForcedList,
                IF WhollyNegated(CommandLineList) THEN <<>>
                ELSE CommandLineList,
                RwList, NetworkList, DefaultList>>,
              LAMBDA values : values # <<>>)

\* C25 as stated: with get_chain_name only a command line ending in a
\* negation is passed over; when the first source left after that ends in a
\* negation, be it the forced value, the settings file or a config section,
\* it is applied and the key resolves to Bool(false)
C25_OnlyCommandLineSkipped ==
    (hist.merge.called = "GetSetting" /\ hist.merge.get_chain_name)
    => ((ChainCandidates # <<>> /\ WhollyNegated(ChainCandidates[1]))
        => hist.merge.value = BoolV(FALSE))

\* with get_chain_name every source ending in a negation is passed over:
\* the result is never false, and it is what the first source not ending in a
\* negation gives
C25_EveryNegatedSourceSkipped ==
    LET live == SelectSeq(<<ForcedList, CommandLineList, RwList, NetworkList,
                            DefaultList>>,
                          LAMBDA values :
                              values # <<>> /\ ~WhollyNegated(values))
    IN  (hist.merge.called = "GetSetting" /\ hist.merge.get_chain_name)
        => /\ hist.merge.value # BoolV(FALSE)
           /\ hist.merge.value = IF live = <<>> THEN NullV
                                 ELSE live[1][Len(live[1])]

\* the settings file holds false for the key, the config default section
\* holds c, and the chain-name lookup has returned c
C25_Witness ==
    /\ hist.merge.called = "GetSetting"
    /\ hist.merge.get_chain_name
    /\ ForcedList = <<>>
    /\ CommandLineList = <<>>
    /\ RwList = <<BoolV(FALSE)>>
    /\ DefaultList = <<StrV(<<"c">>)>>
    /\ hist.merge.value = StrV(<<"c">>)

\* C26 as stated: when foo has a forced value, GetSettingsList returns the
\* forced value alone; no value of the command line, of the settings file or
\* of the config file comes after it
C26_ForcedValueAlone ==
    (hist.merge.called = "GetSettingsList" /\ ForcedList # <<>>)
    => hist.merge.list = ForcedList

\* after a forced value the command line and the settings file add nothing,
\* and the values of the config file are appended
C26_ForcedThenConfigValues ==
    (hist.merge.called = "GetSettingsList" /\ ForcedList # <<>>)
    => hist.merge.list
       = ForcedList \o LiveAfter(NetworkList)
         \o (IF hist.merge.ignore_default_section_config THEN <<>>
             ELSE LiveAfter(DefaultList))

\* foo is forced to f, the config default section holds c, and
\* GetSettingsList has returned [f, c]
C26_Witness ==
    /\ hist.merge.called = "GetSettingsList"
    /\ ~hist.merge.ignore_default_section_config
    /\ ForcedList = <<StrV(ForcedValue)>>
    /\ CommandLineList = <<>>
    /\ RwList = <<>>
    /\ NetworkList = <<>>
    /\ DefaultList = <<StrV(<<"c">>)>>
    /\ hist.merge.list = <<StrV(ForcedValue), StrV(<<"c">>)>>

\* the store with the given list for foo in the config default section
WithDefaultSection(default) ==
    [m_settings EXCEPT
        !.ro_config =
            IF default = <<>>
            THEN [s \in DOMAIN ro_config \ {<<>>} |-> ro_config[s]]
            ELSE Put(ro_config, <<>>, Put(EmptyMap, S_foo, default))]

\* C27: GetSettingsList with ignore_default_section_config does not depend
\* on the config default section: the store with any other list for foo in
\* the default section, ending in a negation or not, gives the same list
C27_ListIgnoresDefaultSection ==
    (hist.merge.called = "GetSettingsList"
     /\ hist.merge.ignore_default_section_config)
    => /\ \A default \in DefaultLists :
              hist.merge.list
              = GetSettingsList(WithDefaultSection(default),
                                hist.merge.section, S_foo, TRUE)
       /\ \A i \in 1..Len(hist.merge.list) :
              \A j \in 1..Len(DefaultList) :
                  isStr(DefaultList[j])
                  => hist.merge.list[i] # DefaultList[j]

\* the command line holds [false, a], the default section [c, false], and
\* the list ignoring the default section is [a]
C27_Witness ==
    /\ hist.merge.called = "GetSettingsList"
    /\ hist.merge.ignore_default_section_config
    /\ ForcedList = <<>>
    /\ CommandLineList = <<BoolV(FALSE), StrV(<<"a">>)>>
    /\ RwList = <<>>
    /\ NetworkList = <<>>
    /\ DefaultList = <<StrV(<<"c">>), BoolV(FALSE)>>
    /\ hist.merge.list = <<StrV(<<"a">>)>>

\* the default section alone holds [c, d] and the list is empty
C27_WitnessEmpty ==
    /\ hist.merge.called = "GetSettingsList"
    /\ hist.merge.ignore_default_section_config
    /\ OnlyDefaultSectionSet
    /\ DefaultList = <<StrV(<<"c">>), StrV(<<"d">>)>>
    /\ hist.merge.list = <<>>

\* a span with something in it: the list is not empty and does not end in a
\* negation
NonEmptySpan(values) ==
    values # <<>> /\ values[Len(values)] # BoolV(FALSE)

\* C28: OnlyHasDefaultSectionSetting returns true exactly when the config
\* default section has a non-empty span for the key and neither the forced
\* settings, the command line, the settings file nor the network section
\* has one; a source whose list is missing or ends in a negation counts as
\* absent
C28_OnlyDefaultSection ==
    hist.merge.called = "OnlyHasDefaultSectionSetting"
    => (hist.merge.only
        <=> /\ NonEmptySpan(DefaultList)
            /\ ~NonEmptySpan(ForcedList)
            /\ ~NonEmptySpan(CommandLineList)
            /\ ~NonEmptySpan(RwList)
            /\ ~NonEmptySpan(NetworkList))

\* the default section holds [c]; the command line, the settings file and
\* the network section hold lists ending in a negation; the answer is true
C28_Witness ==
    /\ hist.merge.called = "OnlyHasDefaultSectionSetting"
    /\ ForcedList = <<>>
    /\ CommandLineList = <<StrV(<<"a">>), BoolV(FALSE)>>
    /\ RwList = <<BoolV(FALSE)>>
    /\ NetworkList = <<BoolV(FALSE)>>
    /\ DefaultList = <<StrV(<<"c">>)>>
    /\ hist.merge.only

\* the default section and the network section both hold a value: false
C28_WitnessOther ==
    /\ hist.merge.called = "OnlyHasDefaultSectionSetting"
    /\ ForcedList = <<>>
    /\ CommandLineList = <<>>
    /\ RwList = <<>>
    /\ NetworkList = <<StrV(<<"n">>)>>
    /\ DefaultList = <<StrV(<<"c">>)>>
    /\ ~hist.merge.only

\* the live values of the config file: the network section, then the default
\* section unless it is ignored
ConfigLive ==
    LiveAfter(NetworkList)
    \o (IF hist.merge.ignore_default_section_config THEN <<>>
        ELSE LiveAfter(DefaultList))

\* C29: in GetSettingsList a negation on the command line discards every
\* command-line value before it; when the negation is the last command-line
\* value the config-file values are discarded too (-foo=a -nofoo gives []),
\* and when a value follows the negation the config-file values are brought
\* back (-foo=a -nofoo -foo=b with foo=c in the config file gives [b, c],
\* without a); no forced value being set
C29_CommandLineNegation ==
    (/\ hist.merge.called = "GetSettingsList"
     /\ ForcedList = <<>>
     /\ FalsePositions(CommandLineList) # {})
    => /\ WhollyNegated(CommandLineList) => hist.merge.list = <<>>
       /\ ~WhollyNegated(CommandLineList)
          => hist.merge.list = LiveAfter(CommandLineList) \o ConfigLive
       /\ (/\ CommandLineList
              = <<StrV(<<"a">>), BoolV(FALSE), StrV(<<"b">>)>>
           /\ NetworkList = <<>>
           /\ DefaultList = <<StrV(<<"c">>)>>
           /\ ~hist.merge.ignore_default_section_config)
          => hist.merge.list = <<StrV(<<"b">>), StrV(<<"c">>)>>

\* -foo=a -nofoo -foo=b with foo=c in the config default section: [b, c]
C29_Witness ==
    /\ hist.merge.called = "GetSettingsList"
    /\ ~hist.merge.ignore_default_section_config
    /\ ForcedList = <<>>
    /\ CommandLineList = <<StrV(<<"a">>), BoolV(FALSE), StrV(<<"b">>)>>
    /\ NetworkList = <<>>
    /\ DefaultList = <<StrV(<<"c">>)>>
    /\ hist.merge.list = <<StrV(<<"b">>), StrV(<<"c">>)>>

\* -foo=a -nofoo with foo=c in the config default section: []
C29_WitnessEmpty ==
    /\ hist.merge.called = "GetSettingsList"
    /\ ~hist.merge.ignore_default_section_config
    /\ ForcedList = <<>>
    /\ CommandLineList = <<StrV(<<"a">>), BoolV(FALSE)>>
    /\ DefaultList = <<StrV(<<"c">>)>>
    /\ hist.merge.list = <<>>

\* the store with other forced settings and another command line
WithNonpersistent(forced, command_line) ==
    [m_settings EXCEPT !.forced_settings = forced,
                       !.command_line_options = command_line]

\* C31: what GetPersistentSetting returns for foo is what it returns on the
\* store with the same settings file, config and network and with nothing
\* forced and an empty command line; two stores that differ only in the
\* forced settings and the command line therefore return the same value, and
\* no ForceSetArg, SoftSetArg or ParseParameters call can change it.
C31_PersistentIgnoresNonpersistent ==
    hist.merge.called = "GetPersistentSetting" =>
        hist.merge.value =
            GetSetting(WithNonpersistent(EmptyMap, EmptyMap), m_network,
                       S_foo, ~UseDefaultSection(Opt(S_foo)), TRUE, FALSE)

\* the forced settings and the command line hold values for foo, and
\* GetPersistentSetting returns the value of the settings file
C31_Witness ==
    /\ hist.merge.called = "GetPersistentSetting"
    /\ ForcedList # <<>>
    /\ CommandLineList # <<>>
    /\ ~last_negated(CommandLineList)
    /\ RwList = <<StrV(<<"r">>)>>
    /\ hist.merge.value = StrV(<<"r">>)

\* the forced settings hold a value for foo and neither the settings file
\* nor the config does, and GetPersistentSetting returns null
C31_WitnessNull ==
    /\ hist.merge.called = "GetPersistentSetting"
    /\ ForcedList # <<>>
    /\ CommandLineList # <<>>
    /\ RwList = <<>>
    /\ ro_config = EmptyMap
    /\ isNull(hist.merge.value)

\* the values of a list, as a set
Elements(list) == {list[i] : i \in 1..Len(list)}

\* C35: GetSetting and GetSettingsList, called on the same store with the
\* same section and flag, agree: the list is non-empty only if the single
\* value is not null, and a single value that is neither false nor an array
\* is one of the elements of the list.
C35_ListAgreesWithSetting ==
    hist.merge.called = "GetSetting, GetSettingsList" =>
        /\ hist.merge.list # <<>> => ~isNull(hist.merge.value)
        /\ (/\ ~isNull(hist.merge.value)
            /\ ~isFalse(hist.merge.value)
            /\ ~isArray(hist.merge.value))
           => hist.merge.value \in Elements(hist.merge.list)

\* C35, the second half alone: a single value that is neither null, false
\* nor an array is one of the elements of the list
C35_ValueIsListed ==
    (/\ hist.merge.called = "GetSetting, GetSettingsList"
     /\ ~isNull(hist.merge.value)
     /\ ~isFalse(hist.merge.value)
     /\ ~isArray(hist.merge.value))
    => hist.merge.value \in Elements(hist.merge.list)

\* C35 as the code has it: the list is non-empty with a null single value
\* only when the settings file holds null for the key
C35_AgreesUnlessNullInFile ==
    (/\ hist.merge.called = "GetSetting, GetSettingsList"
     /\ hist.merge.list # <<>>
     /\ isNull(hist.merge.value))
    => /\ RwList = <<NullV>>
       /\ ForcedList = <<>>
       /\ CommandLineList = <<>>

\* the settings file holds null for foo and the config default section holds
\* foo=c: GetSetting returns null and GetSettingsList returns [null, c]
C35_Witness ==
    /\ hist.merge.called = "GetSetting, GetSettingsList"
    /\ ~hist.merge.ignore_default_section_config
    /\ ForcedList = <<>>
    /\ CommandLineList = <<>>
    /\ RwList = <<NullV>>
    /\ NetworkList = <<>>
    /\ DefaultList = <<StrV(<<"c">>)>>
    /\ isNull(hist.merge.value)
    /\ hist.merge.list = <<NullV, StrV(<<"c">>)>>

----------------------------------------------------------------------------
(* SpecInc: the controlling thread calls ParseParameters and               *)
(* ReadConfigFiles one after the other, any number of times in any order,  *)
(* whatever the calls return.                                              *)

MaxIncArgs == 2

IncTokens ==
    {OptVal(S_includeconf, IncludedName), Negate(S_includeconf),
     OptVal(S_foo, <<"a">>), OptVal(S_bar, <<"u">>)}

\* the config file may be missing, and may name a file to include
IncConfs ==
    {NoFile, File(<<Line(S_foo, <<"a">>)>>),
     File(<<Line(S_foo, <<"a">>), Line(S_includeconf, IncludedName)>>)}

InitInc ==
    /\ InitStore
    /\ pc = "running"
    /\ hist = HistIdle
    /\ \E main \in IncConfs :
           files = [p \in {BITCOIN_CONF_FILENAME, IncludedName} |->
                       IF p = BITCOIN_CONF_FILENAME THEN main
                       ELSE File(<<Line(S_foo, <<"b">>)>>)]

\* ParseParameters is called, between two calls of ReadConfigFiles
IncParse ==
    /\ ld.pc = "idle"
    /\ \E argv \in Argvs(IncTokens, MaxIncArgs) :
           ParseParameters(argv) /\ hist' = [hist EXCEPT !.argv = argv]
    /\ UNCHANGED pc

IncClear == ReadConfigFilesClear(FALSE) /\ UNCHANGED <<pc, hist>>

IncOpen == ReadConfigFilesOpen /\ UNCHANGED <<pc, hist>>

IncStreamLock == ReadConfigStreamLock /\ UNCHANGED <<pc, hist>>

IncStreamOption == ReadConfigStreamOption /\ UNCHANGED <<pc, hist>>

IncStreamReturn == ReadConfigStreamReturn /\ UNCHANGED <<pc, hist>>

IncIncludes == ReadConfigFilesIncludes /\ UNCHANGED <<pc, hist>>

IncInclude == ReadConfigFilesInclude /\ UNCHANGED <<pc, hist>>

IncReturn == ReadConfigFilesReturn /\ UNCHANGED <<pc, hist>>

\* the caller has the result of ReadConfigFiles and goes on
IncReturned ==
    /\ ld.pc = "done"
    /\ ld' = LdIdle
    /\ UNCHANGED <<storeVars, files, pc, cs_args, rd, wr, ss, mp, ret, hist>>

NextInc ==
    \/ IncParse \/ IncClear \/ IncOpen \/ IncStreamLock \/ IncStreamOption
    \/ IncStreamReturn \/ IncIncludes \/ IncInclude \/ IncReturn
    \/ IncReturned

SpecInc == InitInc /\ [][NextInc]_vars

\* ReadConfigFiles is at its look at the command line and finds includeconf
AtIncludeAssertion ==
    /\ ld.pc = "includes"
    /\ FindKey(command_line_options, S_includeconf)

\* C30: the assertion in ReadConfigFiles holds in every reachable state:
\* whatever calls of ParseParameters and ReadConfigFiles came before,
\* whenever ReadConfigFiles finds an includeconf entry among the
\* command-line options, the list of that entry ends in a negation
C30_IncludeAssertionHolds ==
    /\ AtIncludeAssertion
       => /\ command_line_options[S_includeconf] # <<>>
          /\ isFalse(command_line_options[S_includeconf]
                         [Len(command_line_options[S_includeconf])])
    /\ ld.pc # "aborted"

\* the assertion holds whenever the last call of ParseParameters returned
\* true
C30_AssertionHoldsAfterAcceptedParse ==
    (AtIncludeAssertion /\ ret["ParseParameters"].ok)
    => last_negated(command_line_options[S_includeconf])

\* ParseParameters has refused -includeconf=i, ReadConfigFiles was called
\* all the same and the assertion has stopped the process
C30_Witness ==
    /\ hist.argv = <<ProgramName, OptVal(S_includeconf, IncludedName)>>
    /\ ret["ParseParameters"].called
    /\ ~ret["ParseParameters"].ok
    /\ FindKey(command_line_options, S_includeconf)
    /\ command_line_options[S_includeconf] = <<StrV(IncludedName)>>
    /\ ld.pc = "aborted"

----------------------------------------------------------------------------
(* SpecStream: ReadConfigStream is called on a store that holds what an    *)
(* earlier stream left (the config file before one of its includes), with  *)
(* a stream of up to MaxStreamLines lines some of which are rejected.      *)

MaxStreamLines == 3

\* a section header, an option, an option of a named section, an option that
\* is not registered, conf=, and two lines that do not parse
StreamLines ==
    {<<"[">> \o S_test \o <<"]">>, Line(S_foo, <<"a">>),
     Line(S_test \o <<".">> \o S_foo, <<"n">>), Line(S_bar, <<"u">>),
     Line(S_conf, <<"x">>), DashLine, S_foo}

\* the streams read before, all of them accepted
EarlierStreams ==
    {<<>>, <<Line(S_foo, <<"z">>)>>,
     <<(<<"[">> \o S_test \o <<"]">>), Line(S_foo, <<"z">>)>>}

InitStream ==
    /\ InitIdle
    /\ pc = "start"
    /\ files = NoFiles

\* the earlier stream is read into the empty store
StreamEarlier ==
    /\ pc = "start"
    /\ \E stream \in EarlierStreams :
           ReadConfigStream(stream, BITCOIN_CONF_FILENAME, FALSE)
    /\ pc' = "loaded"
    /\ UNCHANGED hist

StreamRead ==
    /\ pc = "loaded"
    /\ \E stream \in SeqsUpTo(StreamLines, MaxStreamLines),
          ignore_invalid_keys \in BOOLEAN :
           /\ ReadConfigStream(stream, BITCOIN_CONF_FILENAME,
                               ignore_invalid_keys)
           /\ hist' = [hist EXCEPT
                          !.stream = stream,
                          !.prev = [config |-> ro_config,
                                    sections |-> m_config_sections]]
    /\ pc' = "read"

NextStream == StreamEarlier \/ StreamRead

SpecStream == InitStream /\ [][NextStream]_vars

FailedRead == pc = "read" /\ ~ret["ReadConfigStream"].ok

\* every list of the first config is the beginning of the same list of the
\* second
ConfigExtends(before, after) ==
    \A section \in DOMAIN before :
        /\ section \in DOMAIN after
        /\ \A name \in DOMAIN before[section] :
               /\ name \in DOMAIN after[section]
               /\ IsPrefix(before[section][name], after[section][name])

\* C33: a ReadConfigStream call that returns false leaves ro_config and the
\* recorded config sections exactly as they were before the call.
C33_FailedReadChangesNothing ==
    FailedRead => /\ ro_config = hist.prev.config
                  /\ m_config_sections = hist.prev.sections

\* C33 as the code has it: a ReadConfigStream call that returns false loses
\* nothing that was stored before the call (every list of ro_config and the
\* recorded sections begin with what they held), and leaves ro_config exactly
\* as before when the failure is a parse error of a line; the options and
\* sections accepted before the failure stay stored.
C33_FailedReadKeepsEarlier ==
    FailedRead => /\ ConfigExtends(hist.prev.config, ro_config)
                  /\ IsPrefix(hist.prev.sections, m_config_sections)
                  /\ ret["ReadConfigStream"].line > 0
                         => ro_config = hist.prev.config

\* foo=z was read before; the stream foo=a, bar=u is rejected for bar in
\* strict mode, and foo=a stays in ro_config
C33_Witness ==
    /\ FailedRead
    /\ hist.stream = <<Line(S_foo, <<"a">>), Line(S_bar, <<"u">>)>>
    /\ hist.prev.config
           = Put(EmptyMap, <<>>, Put(EmptyMap, S_foo, <<StrV(<<"z">>)>>))
    /\ ro_config
           = Put(EmptyMap, <<>>,
                 Put(EmptyMap, S_foo, <<StrV(<<"z">>), StrV(<<"a">>)>>))

\* the stream [test], -foo=a is rejected at line 2, and the section test of
\* line 1 stays recorded
C33_WitnessSection ==
    /\ FailedRead
    /\ hist.stream = <<(<<"[">> \o S_test \o <<"]">>), DashLine>>
    /\ ret["ReadConfigStream"].line = 2
    /\ hist.prev.sections = <<>>
    /\ m_config_sections = <<SectionInfo(S_test, BITCOIN_CONF_FILENAME, 1)>>
    /\ ro_config = hist.prev.config

----------------------------------------------------------------------------
(* SpecReparse: ParseParameters is called twice on the same ArgsManager,   *)
(* each time with a command line of up to MaxReparseArgs tokens: options,  *)
(* a registered command, and tokens that are not registered commands.      *)

MaxReparseArgs == 2

ReparseTokens ==
    {OptVal(S_foo, <<"a">>), OptVal(S_foo, <<"b">>), S_send, S_other,
     <<"x">>}

InitReparse == InitArgs

\* the first call
ReparseFirst ==
    /\ pc = "start"
    /\ \E argv \in Argvs(ReparseTokens, MaxReparseArgs) :
           /\ ParseParameters(argv)
           /\ hist' = [hist EXCEPT !.argv = argv, !.seen = <<argv>>]
    /\ pc' = "parsed"

\* the second call
ReparseSecond ==
    /\ pc = "parsed"
    /\ \E argv \in Argvs(ReparseTokens, MaxReparseArgs) :
           /\ ParseParameters(argv)
           /\ hist' = [hist EXCEPT !.argv = argv,
                                   !.seen = hist.seen \o <<argv>>]
    /\ pc' = "reparsed"

NextReparse == ReparseFirst \/ ReparseSecond

SpecReparse == InitReparse /\ [][NextReparse]_vars

\* what the last call leaves on an ArgsManager that has parsed nothing yet
FreshParse == ParseParametersResult(hist.argv, <<>>, m_accept_any_command)

\* C34: after each ParseParameters call command_line_options and the command
\* list of GetCommand hold only what that call's argv contributed, and the
\* first non-dash token is validated as on a first call: the call returns and
\* leaves what it does on an ArgsManager that has parsed nothing before.
C34_ParseReplacesWholesale ==
    pc \in {"parsed", "reparsed"} =>
        /\ command_line_options = FreshParse.options
        /\ GetCommand(m_command, m_accept_any_command)
               = GetCommand(FreshParse.command, m_accept_any_command)
        /\ ret["ParseParameters"].ok = FreshParse.ok

\* C34, for the options alone: command_line_options holds only what the last
\* call's argv contributed
C34_OptionsReplaced ==
    pc \in {"parsed", "reparsed"} =>
        command_line_options = FreshParse.options

\* C34, as the code has it for the command: the command list holds the
\* tokens of every call so far, and the second call is validated as a first
\* call only when the first call left no command
C34_CommandAccumulates ==
    pc = "reparsed" =>
        LET first == ParseParametersResult(hist.seen[1], <<>>,
                                           m_accept_any_command)
        IN  /\ IsPrefix(first.command, m_command)
            /\ first.command = <<>>
                   => /\ m_command = FreshParse.command
                      /\ ret["ParseParameters"].ok = FreshParse.ok

\* send x is parsed, then -foo=a alone: GetCommand still returns send x
C34_Witness ==
    /\ pc = "reparsed"
    /\ ~m_accept_any_command
    /\ hist.seen = <<<<ProgramName, S_send, <<"x">>>>,
                     <<ProgramName, OptVal(S_foo, <<"a">>)>>>>
    /\ ret["ParseParameters"].ok
    /\ command_line_options = Put(EmptyMap, S_foo, <<StrV(<<"a">>)>>)
    /\ GetCommand(m_command, m_accept_any_command)
           = [has |-> TRUE, command |-> S_send, args |-> <<<<"x">>>>]

\* send is parsed, then other, which is not a registered command: the second
\* call accepts it and appends it to the command list
C34_WitnessUnvalidated ==
    /\ pc = "reparsed"
    /\ ~m_accept_any_command
    /\ hist.seen = <<<<ProgramName, S_send>>, <<ProgramName, S_other>>>>
    /\ ret["ParseParameters"].ok
    /\ ~FreshParse.ok
    /\ m_command = <<S_send, S_other>>

----------------------------------------------------------------------------
(* SpecSoft: two threads call SoftSetArg("-foo", value) at the same time,  *)
(* each with its own value, on a store in which foo is set or not.         *)

\* the value each thread passes
SoftValueOf(thread) == IF thread = "soft1" THEN <<"p">> ELSE <<"q">>

InitSoft ==
    /\ forced_settings \in MergeForced
    /\ command_line_options
           \in {EmptyMap, Put(EmptyMap, S_foo, <<StrV(<<"a">>)>>),
                Put(EmptyMap, S_foo, <<BoolV(FALSE)>>)}
    /\ rw_settings
           \in {EmptyMap, Put(EmptyMap, S_foo, StrV(<<"r">>)),
                Put(EmptyMap, S_foo, NullV)}
    /\ ro_config \in {EmptyMap, MergeConfig(<<>>, <<StrV(<<"c">>)>>)}
    /\ m_network = <<>>
    /\ m_command = <<>>
    /\ m_accept_any_command = TRUE
    /\ m_config_sections = <<>>
    /\ cs_args = ""
    /\ ld = LdIdle
    /\ rd = RdIdle
    /\ wr = WrIdle
    /\ ss = [t \in SoftThreads |->
                [pc |-> "idle", value |-> SoftValueOf(t), result |-> FALSE]]
    /\ mp = MpIdle
    /\ ret = [op \in Operations |-> NoReturn]
    /\ files = NoFiles
    /\ pc = "running"
    /\ hist = [HistIdle EXCEPT !.prev = forced_settings]

untouchedBySoft ==
    <<command_line_options, rw_settings, ro_config, m_network, m_command,
      m_accept_any_command, m_config_sections, files, pc, ld, rd, wr, mp,
      ret, hist>>

\* SoftSetArg: LOCK(cs_args)
SoftSetArgLock(thread) ==
    /\ ss[thread].pc = "idle"
    /\ Lock(thread)
    /\ ss' = [ss EXCEPT ![thread].pc = "locked"]
    /\ UNCHANGED <<forced_settings, untouchedBySoft>>

\* SoftSetArg: if (IsArgSet(strArg)) return false
SoftSetArgTest(thread) ==
    /\ ss[thread].pc = "locked"
    /\ ss' = IF IsArgSet(Opt(S_foo))
             THEN [ss EXCEPT ![thread].pc = "return",
                             ![thread].result = FALSE]
             ELSE [ss EXCEPT ![thread].pc = "force"]
    /\ UNCHANGED <<forced_settings, cs_args, untouchedBySoft>>

\* SoftSetArg: ForceSetArg(strArg, strValue); return true
SoftSetArgForce(thread) ==
    /\ ss[thread].pc = "force"
    /\ forced_settings' = Put(forced_settings, SettingName(Opt(S_foo)),
                              StrV(ss[thread].value))
    /\ ss' = [ss EXCEPT ![thread].pc = "return", ![thread].result = TRUE]
    /\ UNCHANGED <<cs_args, untouchedBySoft>>

\* SoftSetArg: the return releases cs_args
SoftSetArgReturn(thread) ==
    /\ ss[thread].pc = "return"
    /\ Unlock(thread)
    /\ ss' = [ss EXCEPT ![thread].pc = "done"]
    /\ UNCHANGED <<forced_settings, untouchedBySoft>>

SoftLock == \E thread \in SoftThreads : SoftSetArgLock(thread)
SoftTest == \E thread \in SoftThreads : SoftSetArgTest(thread)
SoftForce == \E thread \in SoftThreads : SoftSetArgForce(thread)
SoftReturn == \E thread \in SoftThreads : SoftSetArgReturn(thread)

NextSoft == SoftLock \/ SoftTest \/ SoftForce \/ SoftReturn

SpecSoft == InitSoft /\ [][NextSoft]_vars

\* foo resolved to a non-null value before the calls
SetBefore ==
    ~isNull(GetSetting([m_settings EXCEPT !.forced_settings = hist.prev],
                       m_network, S_foo, ~UseDefaultSection(Opt(S_foo)),
                       FALSE, FALSE))

SoftDone(thread) == ss[thread].pc = "done"

\* the threads whose call has returned true
SoftWinners == {t \in SoftThreads : SoftDone(t) /\ ss[t].result}

\* C32: a SoftSetArg call on a key that resolves to a non-null value returns
\* false and leaves the forced settings as they were; on an unset key the
\* call that returns true has stored its value as the forced setting, and of
\* two concurrent calls exactly one returns true, the value of the other not
\* being stored.
C32_SoftSetArgAtomic ==
    /\ SetBefore => /\ SoftWinners = {}
                    /\ forced_settings = hist.prev
    /\ Cardinality(SoftWinners) <= 1
    /\ \A t \in SoftWinners :
           forced_settings = Put(hist.prev, S_foo, StrV(SoftValueOf(t)))
    /\ (~SetBefore /\ \A t \in SoftThreads : SoftDone(t))
           => Cardinality(SoftWinners) = 1

\* foo was unset, both calls have returned, the second thread's returned
\* true and its value is the forced setting
C32_Witness ==
    /\ ~SetBefore
    /\ \A t \in SoftThreads : SoftDone(t)
    /\ SoftWinners = {"soft2"}
    /\ forced_settings[S_foo] = StrV(<<"q">>)

\* foo was set on the command line, and both calls have returned false
C32_WitnessSet ==
    /\ SetBefore
    /\ hist.prev = EmptyMap
    /\ \A t \in SoftThreads : SoftDone(t)
    /\ SoftWinners = {}
    /\ forced_settings = EmptyMap

----------------------------------------------------------------------------
(* Port mapping (mapport.cpp): the controlling thread calls StartMapPort,  *)
(* InterruptMapPort and StopMapPort, and the thread it creates runs        *)
(* ThreadMapPort.  g_mapport_target_proto and g_mapport_current_proto are  *)
(* plain variables read and written by both threads: a read that races     *)
(* with a write returns the value before or after it, which is what the    *)
(* interleaving of the steps below gives.                                  *)

untouchedByMapPort ==
    <<storeVars, files, pc, cs_args, ld, rd, wr, ss, ret>>

\* CThreadInterrupt::sleep_for: the values it may return, false when the
\* interrupt flag is set and true when the time has passed
sleep_for(interrupt) == IF interrupt THEN {FALSE} ELSE {TRUE}

joinable == mp.g_mapport_thread # 0

\* the thread steps to a new position
Goto(thread, position) == [mp EXCEPT !.thread[thread].pc = position]

\* ThreadMapPort: the head of the loop
ThreadMapPortLoop(thread) ==
    /\ mp.thread[thread].pc = "loop"
    /\ mp' = [mp EXCEPT
                 !.thread[thread].ok = FALSE,
                 !.thread[thread].pc =
                     IF mp.g_mapport_target_proto \cap UPNP # {}
                     THEN "ThreadUpnp" ELSE "check"]
    /\ UNCHANGED <<untouchedByMapPort, hist>>

\* ThreadUpnp: upnpDiscover and UPNP_GetValidIGD, which finds a gateway or
\* not; with no gateway ThreadUpnp returns false
ThreadUpnpDiscover(thread) ==
    /\ mp.thread[thread].pc = "ThreadUpnp"
    /\ \E valid \in BOOLEAN :
           mp' = [mp EXCEPT
                     !.thread[thread].ret = FALSE,
                     !.thread[thread].pc =
                         IF valid THEN "AddPortMapping" ELSE "check"]
    /\ UNCHANGED <<untouchedByMapPort, hist>>

\* ThreadUpnp: UPNP_AddPortMapping, which succeeds or not
ThreadUpnpAddPortMapping(thread) ==
    /\ mp.thread[thread].pc = "AddPortMapping"
    /\ \E success \in BOOLEAN :
           mp' = IF success
                 THEN [mp EXCEPT !.thread[thread].ret = TRUE,
                                 !.g_mapport_current_proto = UPNP,
                                 !.thread[thread].pc = "reannounce"]
                 ELSE [mp EXCEPT !.thread[thread].ret = FALSE,
                                 !.thread[thread].pc = "DeletePortMapping"]
    /\ UNCHANGED <<untouchedByMapPort, hist>>

\* ThreadUpnp: while (g_mapport_interrupt.sleep_for(REANNOUNCE_PERIOD))
ThreadUpnpSleep(thread) ==
    /\ mp.thread[thread].pc = "reannounce"
    /\ \E slept \in sleep_for(mp.g_mapport_interrupt) :
           mp' = Goto(thread, IF slept THEN "AddPortMapping"
                              ELSE "DeletePortMapping")
    /\ UNCHANGED <<untouchedByMapPort, hist>>

\* ThreadUpnp: UPNP_DeletePortMapping and return ret; ThreadMapPort goes on
\* with the loop when ok
ThreadUpnpReturn(thread) ==
    /\ mp.thread[thread].pc = "DeletePortMapping"
    /\ mp' = [mp EXCEPT
                 !.thread[thread].ok = mp.thread[thread].ret,
                 !.thread[thread].pc =
                     IF mp.thread[thread].ret THEN "loop" ELSE "check"]
    /\ UNCHANGED <<untouchedByMapPort, hist>>

\* ThreadMapPort: if (g_mapport_target_proto == NONE) the thread returns
ThreadMapPortCheck(thread) ==
    /\ mp.thread[thread].pc = "check"
    /\ mp' = IF mp.g_mapport_target_proto = NONE
             THEN [mp EXCEPT !.g_mapport_current_proto = NONE,
                             !.thread[thread].pc = "exited"]
             ELSE Goto(thread, "retry")
    /\ UNCHANGED <<untouchedByMapPort, hist>>

\* ThreadMapPort: while (ok || g_mapport_interrupt.sleep_for(RETRY_PERIOD)),
\* reached with ok false
ThreadMapPortRetry(thread) ==
    /\ mp.thread[thread].pc = "retry"
    /\ \E slept \in sleep_for(mp.g_mapport_interrupt) :
           mp' = Goto(thread, IF slept THEN "loop" ELSE "exited")
    /\ UNCHANGED <<untouchedByMapPort, hist>>

ThreadMapPort(thread) ==
    \/ ThreadMapPortLoop(thread)
    \/ ThreadUpnpDiscover(thread)
    \/ ThreadUpnpAddPortMapping(thread)
    \/ ThreadUpnpSleep(thread)
    \/ ThreadUpnpReturn(thread)
    \/ ThreadMapPortCheck(thread)
    \/ ThreadMapPortRetry(thread)

\* the call returns to the controlling thread
Return(state) == [state EXCEPT !.pc = "idle", !.in_start = FALSE]

\* a call is recorded
Called(name) ==
    [hist EXCEPT
        !.mapport.last = name,
        !.mapport.only_start =
            hist.mapport.only_start
            /\ name \in {"StartMapPort(true)", "StartMapPort(false)"},
        !.mapport.shutdown =
            IF name = "InterruptMapPort" THEN TRUE
            ELSE IF name = "StopMapPort" THEN hist.mapport.shutdown
            ELSE FALSE,
        !.mapport.joined = FALSE]

\* StartMapPort: the target is set from use_upnp
StartMapPort(use_upnp) ==
    /\ mp.pc = "idle"
    /\ mp' = [mp EXCEPT
                 !.g_mapport_target_proto =
                     IF use_upnp THEN mp.g_mapport_target_proto \cup UPNP
                     ELSE mp.g_mapport_target_proto \ UPNP,
                 !.pc = "start_current",
                 !.in_start = TRUE]
    /\ hist' = Called(IF use_upnp THEN "StartMapPort(true)"
                      ELSE "StartMapPort(false)")
    /\ UNCHANGED untouchedByMapPort

\* StartMapPort: if (g_mapport_current_proto == NONE)
StartMapPortCurrent ==
    /\ mp.pc = "start_current"
    /\ mp' = IF mp.g_mapport_current_proto = NONE
             THEN IF mp.g_mapport_target_proto = NONE THEN Return(mp)
                  ELSE [mp EXCEPT !.pc = "start_thread"]
             ELSE [mp EXCEPT !.pc = "start_overlap"]
    /\ UNCHANGED <<untouchedByMapPort, hist>>

\* StartMapPort: else if (g_mapport_target_proto & g_mapport_current_proto)
StartMapPortOverlap ==
    /\ mp.pc = "start_overlap"
    /\ mp' = IF mp.g_mapport_target_proto \cap mp.g_mapport_current_proto
                  # {}
             THEN Return(mp)
             ELSE [mp EXCEPT !.pc = "start_thread"]
    /\ UNCHANGED <<untouchedByMapPort, hist>>

\* the thread object a new std::thread gets
NewThread == CHOOSE t \in MapPortThreads :
                 /\ mp.thread[t].pc = "none"
                 /\ \A u \in MapPortThreads : mp.thread[u].pc = "none" => t <= u

\* StartMapPort: with no target InterruptMapPort and StopMapPort are called;
\* otherwise the thread is interrupted when the handle is joinable, and a new
\* thread is created after assert(!g_mapport_interrupt) when it is not
StartMapPortThread ==
    /\ mp.pc = "start_thread"
    /\ mp' = IF mp.g_mapport_target_proto = NONE
             THEN [mp EXCEPT !.pc = "InterruptMapPort"]
             ELSE IF joinable
             THEN Return([mp EXCEPT !.g_mapport_interrupt = TRUE])
             ELSE IF mp.g_mapport_interrupt
             THEN [mp EXCEPT !.pc = "aborted"]
             ELSE Return([mp EXCEPT
                             !.g_mapport_thread = NewThread,
                             !.thread[NewThread] =
                                 [pc |-> "loop", ok |-> FALSE,
                                  ret |-> FALSE]])
    /\ UNCHANGED <<untouchedByMapPort, hist>>

\* InterruptMapPort is called by the controlling thread
InterruptMapPort ==
    /\ mp.pc = "idle"
    /\ mp' = [mp EXCEPT !.pc = "InterruptMapPort"]
    /\ hist' = Called("InterruptMapPort")
    /\ UNCHANGED untouchedByMapPort

\* InterruptMapPort: g_mapport_target_proto = NONE
InterruptMapPortTarget ==
    /\ mp.pc = "InterruptMapPort"
    /\ mp' = [mp EXCEPT !.g_mapport_target_proto = NONE, !.pc = "signal"]
    /\ UNCHANGED <<untouchedByMapPort, hist>>

\* InterruptMapPort returning without g_mapport_interrupt()
InterruptMapPortSignalSkipped ==
    /\ mp.pc = "signal"
    /\ mp' = IF mp.in_start THEN [mp EXCEPT !.pc = "StopMapPort"]
             ELSE Return(mp)
    /\ UNCHANGED <<untouchedByMapPort, hist>>

\* InterruptMapPort: if (g_mapport_thread.joinable()) g_mapport_interrupt();
\* inside StartMapPort the call of StopMapPort follows
InterruptMapPortSignal ==
    /\ mp.pc = "signal"
    /\ LET signalled == IF joinable
                        THEN [mp EXCEPT !.g_mapport_interrupt = TRUE]
                        ELSE mp
       IN  mp' = IF mp.in_start THEN [signalled EXCEPT !.pc = "StopMapPort"]
                 ELSE Return(signalled)
    /\ UNCHANGED <<untouchedByMapPort, hist>>

\* StopMapPort is called by the controlling thread
StopMapPort ==
    /\ mp.pc = "idle"
    /\ mp' = [mp EXCEPT !.pc = "StopMapPort"]
    /\ hist' = Called("StopMapPort")
    /\ UNCHANGED untouchedByMapPort

\* StopMapPort: if (g_mapport_thread.joinable())
StopMapPortJoinable ==
    /\ mp.pc = "StopMapPort"
    /\ mp' = IF joinable THEN [mp EXCEPT !.pc = "join"] ELSE Return(mp)
    /\ UNCHANGED <<untouchedByMapPort, hist>>

\* StopMapPort: g_mapport_thread.join() returns once the thread has left
\* ThreadMapPort
StopMapPortJoin ==
    /\ mp.pc = "join"
    /\ mp.thread[mp.g_mapport_thread].pc = "exited"
    /\ mp' = [mp EXCEPT !.thread[mp.g_mapport_thread] = NoThread,
                        !.g_mapport_thread = 0,
                        !.pc = "reset"]
    /\ hist' = [hist EXCEPT !.mapport.joined = TRUE]
    /\ UNCHANGED untouchedByMapPort

\* StopMapPort returning after the join without g_mapport_interrupt.reset()
StopMapPortResetSkipped ==
    /\ mp.pc = "reset"
    /\ mp' = Return(mp)
    /\ UNCHANGED <<untouchedByMapPort, hist>>

\* StopMapPort: g_mapport_interrupt.reset()
StopMapPortReset ==
    /\ mp.pc = "reset"
    /\ mp' = Return([mp EXCEPT !.g_mapport_interrupt = FALSE])
    /\ UNCHANGED <<untouchedByMapPort, hist>>

----------------------------------------------------------------------------
(* SpecMapPort: the controlling thread calls StartMapPort(true),           *)
(* StartMapPort(false), InterruptMapPort and StopMapPort in any order, one *)
(* call after the other, while the mapport thread runs.  LiveMapPort adds  *)
(* that a thread that can step does step (every UPnP library call and      *)
(* every sleep returns) and that a call that has begun goes on.            *)

InitMapPort == InitIdle /\ pc = "running" /\ files = NoFiles

MapPortStart == \E use_upnp \in BOOLEAN : StartMapPort(use_upnp)

MapPortCall ==
    \/ StartMapPortCurrent \/ StartMapPortOverlap \/ StartMapPortThread
    \/ InterruptMapPortTarget \/ InterruptMapPortSignal
    \/ StopMapPortJoinable \/ StopMapPortJoin \/ StopMapPortReset

MapPortThread == \E thread \in MapPortThreads : ThreadMapPort(thread)

NextMapPort ==
    \/ MapPortStart \/ InterruptMapPort \/ StopMapPort
    \/ MapPortCall
    \/ MapPortThread

SpecMapPort == InitMapPort /\ [][NextMapPort]_vars

LiveMapPort ==
    /\ InitMapPort
    /\ [][NextMapPort]_vars
    /\ WF_vars(MapPortThread)
    /\ WF_vars(MapPortCall)

\* the threads that exist: created and not yet joined
ExistingThreads == {t \in MapPortThreads : mp.thread[t].pc # "none"}

\* the threads that are inside ThreadMapPort
RunningThreads ==
    {t \in MapPortThreads : mp.thread[t].pc \notin {"none", "exited"}}

\* InterruptMapPort has been called and StartMapPort has not been since
Shutdown == hist.mapport.shutdown

\* C36: once InterruptMapPort has been called (and no StartMapPort after
\* it), a running mapport thread eventually leaves ThreadMapPort, wherever
\* it was; the join of a following StopMapPort returns; and when that
\* StopMapPort has returned the handle is not joinable, the interrupt flag
\* is reset and the target is NONE.
C36_ShutdownTerminates ==
    /\ (Shutdown /\ RunningThreads # {})
           ~> (RunningThreads = {} \/ ~Shutdown)
    /\ (Shutdown /\ mp.pc = "join")
           ~> (/\ mp.pc = "idle"
               /\ hist.mapport.joined
               /\ ~joinable
               /\ ~mp.g_mapport_interrupt
               /\ mp.g_mapport_target_proto = NONE)
    /\ [](/\ Shutdown
          /\ hist.mapport.last = "StopMapPort"
          /\ mp.pc = "idle"
          => /\ ~joinable
             /\ ~mp.g_mapport_interrupt
             /\ mp.g_mapport_target_proto = NONE)

\* InterruptMapPort and then StopMapPort were called with a thread running:
\* the thread has been joined and StopMapPort has returned
C36_Witness ==
    /\ Shutdown
    /\ hist.mapport.last = "StopMapPort"
    /\ hist.mapport.joined
    /\ mp.pc = "idle"
    /\ ExistingThreads = {}
    /\ ~mp.g_mapport_interrupt

\* InterruptMapPort has returned while the thread sleeps between two
\* announcements of a mapping it holds
C36_WitnessSleeping ==
    /\ Shutdown
    /\ hist.mapport.last = "InterruptMapPort"
    /\ mp.pc = "idle"
    /\ mp.g_mapport_interrupt
    /\ \E t \in MapPortThreads : mp.thread[t].pc = "reannounce"

\* only StartMapPort has been called, the last call was StartMapPort(true)
\* and it has returned
AfterStartTrue ==
    /\ hist.mapport.only_start
    /\ hist.mapport.last = "StartMapPort(true)"
    /\ mp.pc = "idle"

\* C37: after StartMapPort calls the last of which is StartMapPort(true),
\* with no InterruptMapPort or StopMapPort call, a mapport thread is inside
\* ThreadMapPort and it has not been interrupted.
C37_StartKeepsThreadRunning ==
    AfterStartTrue => /\ RunningThreads # {}
                      /\ ~mp.g_mapport_interrupt

\* StartMapPort(true) has returned with the target UPNP, and the only thread
\* has left ThreadMapPort: nothing will attempt the mapping
C37_Witness ==
    /\ AfterStartTrue
    /\ mp.g_mapport_target_proto = UPNP
    /\ RunningThreads = {}
    /\ joinable
    /\ mp.thread[mp.g_mapport_thread].pc = "exited"

\* StartMapPort(false) has joined a thread that left current at UPNP, and the
\* StartMapPort(true) after it has returned without creating a thread
C37_WitnessNoThread ==
    /\ AfterStartTrue
    /\ mp.g_mapport_target_proto = UPNP
    /\ mp.g_mapport_current_proto = UPNP
    /\ ~joinable
    /\ ExistingThreads = {}

\* a repeated StartMapPort(true) has interrupted the running thread
C37_WitnessInterrupted ==
    /\ AfterStartTrue
    /\ RunningThreads # {}
    /\ mp.g_mapport_interrupt

\* C38: at most one mapport thread exists at a time; whenever the handle is
\* not joinable the interrupt flag is clear (but between the join and the
\* reset inside StopMapPort); and the assertion before a thread is created
\* never fails.
C38_OneThreadAndAssertion ==
    /\ Cardinality(ExistingThreads) <= 1
    /\ ExistingThreads = IF joinable THEN {mp.g_mapport_thread} ELSE {}
    /\ (~joinable /\ mp.pc # "reset") => ~mp.g_mapport_interrupt
    /\ mp.pc # "aborted"

\* a thread was interrupted and joined, and StartMapPort(true) has created
\* the next one past the assertion
C38_Witness ==
    /\ ~hist.mapport.only_start
    /\ hist.mapport.last = "StartMapPort(true)"
    /\ mp.pc = "idle"
    /\ joinable
    /\ mp.thread[mp.g_mapport_thread].pc = "loop"
    /\ ~mp.g_mapport_interrupt

====
